---------------------------- MODULE Spec2Model ----------------------------
(***************************************************************************)
(* Model of the trade-strategy-tester core: the strategy engine            *)
(* (strategyEngine.js: extraction, slope, per-pool slope history, signal)  *)
(* and the trade simulator (tradeSimulator.js: the virtual ledger).        *)
(*                                                                         *)
(* Conventions.                                                            *)
(*   - JavaScript null / undefined / a missing field is Null (<<>>); an    *)
(*     optional number is Null or the one-element tuple <<n>>.             *)
(*   - A JavaScript number that is not an integer (a slope, an amount, a   *)
(*     PnL) is an exact fraction <<num, den>> in lowest terms, den > 0.    *)
(*   - Date.now() is a read of a clock that never runs backwards: every    *)
(*     read yields some value between the last value read and MaxClock.    *)
(*   - openPosition, a reference to an element of the trades array, is     *)
(*     the index of that element (0 for null).                             *)
(*   - An address is the sequence of its characters; a string that         *)
(*     parseInt reads is the sequence of its UTF-16 code units.            *)
(***************************************************************************)
EXTENDS Integers, Sequences, FiniteSets, TLC

VARIABLES
    config,        \* strategyEngine.js: let config (Null before initializeStrategy)
    slopeHistory,  \* strategyEngine.js: the Map poolAddress -> array of records
    trades,        \* tradeSimulator.js: the ledger
    openPosition,  \* tradeSimulator.js: index into trades of the open trade, 0 = null
    tradeCounter,  \* tradeSimulator.js: the id counter
    now,           \* the last value Date.now() returned
    pending,       \* index.js: the handleMessage calls suspended at their await
    phase,         \* index.js: "up", "shutdown" once shutdown() was called,
                   \* "exited" once process.exit was
    result,        \* what the last call returned or threw, and what it was given
    arrivals,      \* observer: per pool, every resolved slope in arrival order
    gaps,          \* observer: per pool, the number of its records with an
                   \* unresolved slope that arrived before its first resolved
                   \* slope, between each two resolved ones, and since the last
    steps          \* observer: number of calls made so far

vars == <<config, slopeHistory, trades, openPosition, tradeCounter, now,
          result, arrivals, gaps, steps, pending, phase>>

-----------------------------------------------------------------------------
(* Bounds of the exploration *)

MaxSteps == 3

MaxClock == 2

MaxWarm == 99

MaxTail == 3

\* calls of the trade simulator that change the ledger, in SpecLedger
MaxCalls == 3

\* the same in SpecRounds and in SpecClosing, and the signals executed in
\* SpecStrategy
MaxRounds == 4

\* entries of a price map handed to calculateSlope, in SpecSlope
MaxKeys == 4

\* buckets of a table handed to getExecutionPrice, in SpecPrice
MaxBuckets == 3

-----------------------------------------------------------------------------
(* Values *)

Null == <<>>

Some(v) == <<v>>

\* JavaScript truthiness of an optional number: present, and not 0
Truthy(o) == o # Null /\ o[1] # 0

Abs(x) == IF x < 0 THEN -x ELSE x

RECURSIVE Gcd(_, _)
Gcd(a, b) == IF b = 0 THEN a ELSE Gcd(b, a % b)

\* The fraction n/d (d # 0) in lowest terms with a positive denominator
Frac(n, d) ==
    LET g == Gcd(Abs(n), Abs(d))
        s == IF d < 0 THEN -1 ELSE 1
    IN  <<(s * n) \div g, (s * d) \div g>>

FracSub(a, b) == Frac(a[1] * b[2] - b[1] * a[2], a[2] * b[2])

FracMul(a, b) == Frac(a[1] * b[1], a[2] * b[2])

FracLt(a, b) == a[1] * b[2] < b[1] * a[2]

FracZero == <<0, 1>>

-----------------------------------------------------------------------------
(* strategyEngine.js *)

maxHistorySize == 100

\* A string on which the program works character by character (an address,
\* a time given as text) is the sequence of its characters; "" is <<>>.

\* "0xdac17f958d2ee523a2206206994597c13d831ec7"
USDT_ADDRESS ==
    <<"0", "x", "d", "a", "c", "1", "7", "f", "9", "5", "8", "d", "2",
      "e", "e", "5", "2", "3", "a", "2", "2", "0", "6", "2", "0", "6",
      "9", "9", "4", "5", "9", "7", "c", "1", "3", "d", "8", "3", "1",
      "e", "c", "7">>

\* "0xc02aaa39b223fe8d0a0e5c4f27ead9083c756cc2"
WETH_ADDRESS ==
    <<"0", "x", "c", "0", "2", "a", "a", "a", "3", "9", "b", "2", "2",
      "3", "f", "e", "8", "d", "0", "a", "0", "e", "5", "c", "4", "f",
      "2", "7", "e", "a", "d", "9", "0", "8", "3", "c", "7", "5", "6",
      "c", "c", "2">>

\* Other spellings and tokens that occur in decoded records
\* "0xdAC17F958D2ee523a2206206994597C13D831ec7"
USDT_CHECKSUM ==
    <<"0", "x", "d", "A", "C", "1", "7", "F", "9", "5", "8", "D", "2",
      "e", "e", "5", "2", "3", "a", "2", "2", "0", "6", "2", "0", "6",
      "9", "9", "4", "5", "9", "7", "C", "1", "3", "D", "8", "3", "1",
      "e", "c", "7">>

\* "0xC02aaA39b223FE8D0A0e5C4F27eAD9083C756Cc2"
WETH_CHECKSUM ==
    <<"0", "x", "C", "0", "2", "a", "a", "A", "3", "9", "b", "2", "2",
      "3", "F", "E", "8", "D", "0", "A", "0", "e", "5", "C", "4", "F",
      "2", "7", "e", "A", "D", "9", "0", "8", "3", "C", "7", "5", "6",
      "C", "c", "2">>

\* "0xDAC17F958D2EE523A2206206994597C13D831EC7"
USDT_UPPER ==
    <<"0", "x", "D", "A", "C", "1", "7", "F", "9", "5", "8", "D", "2",
      "E", "E", "5", "2", "3", "A", "2", "2", "0", "6", "2", "0", "6",
      "9", "9", "4", "5", "9", "7", "C", "1", "3", "D", "8", "3", "1",
      "E", "C", "7">>

\* "0XC02AAA39B223FE8D0A0E5C4F27EAD9083C756CC2"
WETH_0X_UPPER ==
    <<"0", "X", "C", "0", "2", "A", "A", "A", "3", "9", "B", "2", "2",
      "3", "F", "E", "8", "D", "0", "A", "0", "E", "5", "C", "4", "F",
      "2", "7", "E", "A", "D", "9", "0", "8", "3", "C", "7", "5", "6",
      "C", "C", "2">>

\* "0x6b175474e89094c44da98b954eedeac495271d0f"
DAI_ADDRESS ==
    <<"0", "x", "6", "b", "1", "7", "5", "4", "7", "4", "e", "8", "9",
      "0", "9", "4", "c", "4", "4", "d", "a", "9", "8", "b", "9", "5",
      "4", "e", "e", "d", "e", "a", "c", "4", "9", "5", "2", "7", "1",
      "d", "0", "f">>

\* The upper-case letters
UpperCase ==
    {"A", "B", "C", "D", "E", "F", "G", "H", "I", "J", "K", "L", "M",
     "N", "O", "P", "Q", "R", "S", "T", "U", "V", "W", "X", "Y", "Z"}

\* The lower-case letter of each upper-case letter A-Z
LowerOf ==
    [c \in UpperCase |->
        CASE c = "A" -> "a" [] c = "B" -> "b" [] c = "C" -> "c" [] c = "D" -> "d"
          [] c = "E" -> "e" [] c = "F" -> "f" [] c = "G" -> "g" [] c = "H" -> "h"
          [] c = "I" -> "i" [] c = "J" -> "j" [] c = "K" -> "k" [] c = "L" -> "l"
          [] c = "M" -> "m" [] c = "N" -> "n" [] c = "O" -> "o" [] c = "P" -> "p"
          [] c = "Q" -> "q" [] c = "R" -> "r" [] c = "S" -> "s" [] c = "T" -> "t"
          [] c = "U" -> "u" [] c = "V" -> "v" [] c = "W" -> "w" [] c = "X" -> "x"
          [] c = "Y" -> "y" [] c = "Z" -> "z"]

\* String.prototype.toLowerCase, on strings of ASCII characters: every
\* letter A-Z is replaced by its lower-case letter, the rest is kept
toLowerCase(s) ==
    [i \in 1..Len(s) |-> IF s[i] \in UpperCase THEN LowerOf[s[i]] ELSE s[i]]

\* USDT_ADDRESS.toLowerCase() and WETH_ADDRESS.toLowerCase()
USDT_LOWER == toLowerCase(USDT_ADDRESS)
WETH_LOWER == toLowerCase(WETH_ADDRESS)

\* isSupportedToken(address): false for a falsy address
isSupportedToken(address) ==
    IF address = <<>>
    THEN FALSE
    ELSE \E addr \in {toLowerCase(address)} : addr = USDT_LOWER \/ addr = WETH_LOWER

\* One entry of a price table: bucket.SlippageBasisPoints and bucket.Price
Bucket(bp, price) == [SlippageBasisPoints |-> bp, Price |-> price]

\* bucket.SlippageBasisPoints || bucket.slippageBasisPoints || 0
BucketBp(b) == b.SlippageBasisPoints

\* bucket.Price || bucket.price || null
BucketPrice(b) == IF Truthy(b.Price) THEN b.Price ELSE Null

\* The prices object built by the forEach of extractPoolData: a later bucket
\* with the same basis points overwrites an earlier one
RECURSIVE BuildPrices(_, _)
BuildPrices(buckets, prices) ==
    IF buckets = <<>>
    THEN prices
    ELSE LET b == Head(buckets)
             bp == BucketBp(b)
             price == BucketPrice(b)
         IN  BuildPrices(Tail(buckets),
                 IF price # Null
                 THEN [k \in DOMAIN prices \cup {bp} |->
                          IF k = bp THEN price[1] ELSE prices[k]]
                 ELSE prices)

EmptyObject == [k \in {} |-> 0]

\* NaN, kept among the timestamps as an integer that no clock value and no
\* time of a record of the model is equal to
NaN == -2147483647

\* JavaScript falsiness of a timestamp: 0 or NaN
FalsyNumber(x) == x = 0 \/ x = NaN

\* A string that parseInt reads is the sequence of its UTF-16 code units,
\* each a number: 48 to 57 are the digits 0 to 9, 97 to 122 the letters a to
\* z, 65 to 90 the letters A to Z.
\* The value of a digit in the radix, Null for any other code unit
DigitOf(c, radix) ==
    LET v == IF c \in 48..57 THEN c - 48
             ELSE IF c \in 97..122 THEN c - 87
             ELSE IF c \in 65..90 THEN c - 55
             ELSE 99
    IN  IF v < radix THEN Some(v) ELSE Null

\* The number written by the longest run of digits at the start of s, Null
\* when s does not start with a digit
RECURSIVE ParseDigits(_, _, _, _)
ParseDigits(s, radix, acc, seen) ==
    IF s # <<>> /\ DigitOf(Head(s), radix) # Null
    THEN ParseDigits(Tail(s), radix, acc * radix + DigitOf(Head(s), radix)[1], TRUE)
    ELSE IF seen THEN Some(acc) ELSE Null

\* The code units parseInt skips at the start of a string, the white space
\* and the line terminators of the language: U+0009 to U+000D, U+0020,
\* U+00A0, U+1680, U+2000 to U+200A, U+2028, U+2029, U+202F, U+205F, U+3000
\* and U+FEFF
StrWhiteSpaceChar ==
    (9..13) \cup {32, 160, 5760} \cup (8192..8202)
        \cup {8232, 8233, 8239, 8287, 12288, 65279}

RECURSIVE SkipWhiteSpace(_)
SkipWhiteSpace(s) ==
    IF s # <<>> /\ Head(s) \in StrWhiteSpaceChar
    THEN SkipWhiteSpace(Tail(s))
    ELSE s

\* parseInt(s) without a radix: white space, a sign (43 is +, 45 is -) and
\* the prefix 0x or 0X (48, then 120 or 88) are read first, then the digits
\* up to the first code unit that is none; NaN when there is no digit
parseInt(s) ==
    LET trimmed == SkipWhiteSpace(s)
        signed == trimmed # <<>> /\ Head(trimmed) \in {43, 45}
        sign == IF trimmed # <<>> /\ Head(trimmed) = 45 THEN -1 ELSE 1
        body == IF signed THEN Tail(trimmed) ELSE trimmed
        hex == Len(body) >= 2 /\ body[1] = 48 /\ body[2] \in {120, 88}
        digits == IF hex
                  THEN ParseDigits(SubSeq(body, 3, Len(body)), 16, 0, FALSE)
                  ELSE ParseDigits(body, 10, 0, FALSE)
    IN  IF digits = Null THEN NaN ELSE sign * digits[1]

\* The timestamp of a record (lines 68-80).  TransactionHeader.Time is
\*   Null                   missing, or the header is missing
\*   kind "long"            an object with low and high; time.value stands for
\*                          low + high * 2^32 (the halves themselves exceed
\*                          32-bit integers)
\*   kind "number"          a number time.value
\*   kind "string"          a string, time.value its code units
\*   kind "other"           any other truthy value, such as an object
\*                          without low or without high
\* A falsy Time (the number 0, the string '') and a Time of kind "other"
\* leave the value t read from the clock.
TimestampOf(time, t) ==
    IF time = Null
    THEN t
    ELSE IF time.kind = "long"
    THEN time.value
    ELSE IF time.kind = "number"
    THEN IF FalsyNumber(time.value) THEN t ELSE time.value
    ELSE IF time.kind = "string"
    THEN IF time.value = <<>> THEN t ELSE parseInt(time.value)
    ELSE t

\* addressA.toLowerCase() === x && addressB.toLowerCase() === y
IsPair(m, x, y) == toLowerCase(m.addressA) = x /\ toLowerCase(m.addressB) = y

\* The object extractPoolData returns for a record that passed the filter,
\* isWETHtoUSDT and isUSDTtoWETH being the two comparisons of lines 59-62
\* and slippageBuckets the table chosen at lines 95-104
PoolData(m, t, isWETHtoUSDT, isUSDTtoWETH, direction, slippageBuckets) ==
    [poolAddress |-> IF m.poolAddress # Null /\ m.poolAddress[1] # ""
                     THEN m.poolAddress[1]
                     ELSE "unknown",
     addressA |-> m.addressA,
     addressB |-> m.addressB,
     liquidity |-> m.liquidity,
     timestamp |-> TimestampOf(m.time, t),
     direction |-> direction,
     slippageBuckets |-> slippageBuckets,
     prices |-> BuildPrices(slippageBuckets, EmptyObject),
     isWETHtoUSDT |-> isWETHtoUSDT,
     isUSDTtoWETH |-> isUSDTtoWETH]

\* Variant: the A-to-B table is used for every pairing
extractPoolDataAtoB(m, t) ==
    IF ~isSupportedToken(m.addressA) \/ ~isSupportedToken(m.addressB)
    THEN Null
    ELSE CHOOSE poolData \in
             {Some(PoolData(m, t, isWETHtoUSDT, isUSDTtoWETH, "AtoB", m.atoBPrices)) :
                  isWETHtoUSDT \in {IsPair(m, WETH_LOWER, USDT_LOWER)},
                  isUSDTtoWETH \in {IsPair(m, USDT_LOWER, WETH_LOWER)}} : TRUE

\* Variant: the filter looks at token B only
extractPoolDataTokenB(m, t) ==
    IF ~isSupportedToken(m.addressB)
    THEN Null
    ELSE CHOOSE poolData \in
             {Some(PoolData(m, t, isWETHtoUSDT, isUSDTtoWETH,
                            IF isUSDTtoWETH THEN "BtoA" ELSE "AtoB",
                            IF isUSDTtoWETH THEN m.btoAPrices ELSE m.atoBPrices)) :
                  isWETHtoUSDT \in {IsPair(m, WETH_LOWER, USDT_LOWER)},
                  isUSDTtoWETH \in {IsPair(m, USDT_LOWER, WETH_LOWER)}} : TRUE

\* A decoded record m, after the two spellings of each field are resolved:
\*   m.poolAddress  Null or Pool.SmartContract (a falsy one, "", gives 'unknown')
\*   m.addressA/B   CurrencyA/B.SmartContract, <<>> ('') when missing
\*   m.time         Null or TransactionHeader.Time
\*   m.liquidity    Liquidity.AmountCurrencyA
\*   m.atoBPrices, m.btoAPrices   the two price tables
\* t is the value Date.now() returns at line 68.
extractPoolData(m, t) ==
    IF ~isSupportedToken(m.addressA) \/ ~isSupportedToken(m.addressB)
    THEN Null
    ELSE CHOOSE poolData \in
             {Some(PoolData(m, t, isWETHtoUSDT, isUSDTtoWETH,
                            IF isUSDTtoWETH THEN "BtoA" ELSE "AtoB",
                            IF isUSDTtoWETH THEN m.btoAPrices ELSE m.atoBPrices)) :
                  isWETHtoUSDT \in {IsPair(m, WETH_LOWER, USDT_LOWER)},
                  isUSDTtoWETH \in {IsPair(m, USDT_LOWER, WETH_LOWER)}} : TRUE

\* Object.keys(prices).map(parseInt).sort((a, b) => a - b)
RECURSIVE SortedKeys(_)
SortedKeys(S) ==
    IF S = {}
    THEN <<>>
    ELSE LET lo == CHOOSE x \in S : \A y \in S : x <= y
         IN  <<lo>> \o SortedKeys(S \ {lo})

\* Variant: on equal distance the later key replaces the earlier one
RECURSIVE ReduceClosestLast(_, _, _)
ReduceClosestLast(closest, rest, ref) ==
    IF rest = <<>>
    THEN closest
    ELSE ReduceClosestLast(
             IF Abs(Head(rest) - ref) <= Abs(closest - ref) THEN Head(rest) ELSE closest,
             Tail(rest), ref)

\* basisPoints.reduce((closest, bp) =>
\*     Math.abs(bp - ref) < Math.abs(closest - ref) ? bp : closest)
RECURSIVE ReduceClosest(_, _, _)
ReduceClosest(closest, rest, ref) ==
    IF rest = <<>>
    THEN closest
    ELSE ReduceClosest(
             IF Abs(Head(rest) - ref) < Abs(closest - ref) THEN Head(rest) ELSE closest,
             Tail(rest), ref)

\* prices[ref], and when that is missing the price at the closest key
ReferencePrice(prices, ref) ==
    IF ref \in DOMAIN prices /\ prices[ref] # 0
    THEN Some(prices[ref])
    ELSE LET basisPoints == SortedKeys(DOMAIN prices)
         IN  IF Len(basisPoints) > 0
             THEN Some(prices[ReduceClosest(Head(basisPoints), Tail(basisPoints), ref)])
             ELSE Null

\* Variant: the difference is divided by the price at 100 basis points
calculateSlopeOverFar(poolData) ==
    LET price01Value == ReferencePrice(poolData.prices, 10)
        price1Value == ReferencePrice(poolData.prices, 100)
    IN  IF ~Truthy(price01Value) \/ ~Truthy(price1Value)
        THEN Null
        ELSE Frac(price1Value[1] - price01Value[1], price1Value[1])

\* calculateSlope(poolData): Null or the slope, an exact fraction
calculateSlope(poolData) ==
    LET price01Value == ReferencePrice(poolData.prices, 10)
        price1Value == ReferencePrice(poolData.prices, 100)
    IN  IF ~Truthy(price01Value) \/ ~Truthy(price1Value)
        THEN Null
        ELSE Frac(price1Value[1] - price01Value[1], price01Value[1])

\* slopeHistory.get(poolAddress) || []
HistoryOf(h, poolAddress) ==
    IF poolAddress \in DOMAIN h THEN h[poolAddress] ELSE <<>>

\* Variant: a pool without history gives the delta slope 0, the value
\* updateHistory records for it
calculateDeltaSlopeZeroFirst(h, poolAddress, currentSlope) ==
    LET history == HistoryOf(h, poolAddress)
    IN  IF Len(history) = 0
        THEN FracZero
        ELSE FracSub(currentSlope, history[Len(history)].slope)

\* calculateDeltaSlope(poolAddress, currentSlope): null without history
calculateDeltaSlope(h, poolAddress, currentSlope) ==
    LET history == HistoryOf(h, poolAddress)
    IN  IF Len(history) = 0
        THEN Null
        ELSE FracSub(currentSlope, history[Len(history)].slope)

\* Variant: the newest record is dropped (pop) instead of the oldest (shift)
PushAndTrimPop(history, rec) ==
    LET pushed == Append(history, rec)
    IN  IF Len(pushed) > maxHistorySize
        THEN SubSeq(pushed, 1, Len(pushed) - 1)
        ELSE pushed

\* The array after push and the shift that follows it
PushAndTrim(history, rec) ==
    LET pushed == Append(history, rec)
    IN  IF Len(pushed) > maxHistorySize THEN Tail(pushed) ELSE pushed

\* Variant: the record is entered in the history of every pool of the Map
updateHistoryEveryPool(h, poolData, slope, t) ==
    LET poolAddress == poolData.poolAddress
        timestamp == IF FalsyNumber(poolData.timestamp) THEN t ELSE poolData.timestamp
        history == HistoryOf(h, poolAddress)
        deltaSlope == IF Len(history) > 0
                      THEN FracSub(slope, history[Len(history)].slope)
                      ELSE FracZero
        rec == [timestamp |-> timestamp, slope |-> slope, deltaSlope |-> deltaSlope]
    IN  [k \in DOMAIN h \cup {poolAddress} |-> PushAndTrim(HistoryOf(h, k), rec)]

\* The slope history Map after updateHistory(poolData, slope); t is the value
\* Date.now() returns at line 196 (read only when poolData.timestamp is falsy)
updateHistory(h, poolData, slope, t) ==
    LET poolAddress == poolData.poolAddress
        timestamp == IF FalsyNumber(poolData.timestamp) THEN t ELSE poolData.timestamp
        history == HistoryOf(h, poolAddress)
        deltaSlope == IF Len(history) > 0
                      THEN FracSub(slope, history[Len(history)].slope)
                      ELSE FracZero
        rec == [timestamp |-> timestamp, slope |-> slope, deltaSlope |-> deltaSlope]
    IN  [k \in DOMAIN h \cup {poolAddress} |->
            IF k = poolAddress THEN PushAndTrim(history, rec) ELSE h[k]]

\* Variant: the threshold is read before the null check
generateSignalEager(cfg, slope, deltaSlope) ==
    IF cfg = Null
    THEN [threw |-> TRUE, value |-> "TypeError"]
    ELSE IF slope = Null \/ deltaSlope = Null
    THEN [threw |-> FALSE, value |-> "null"]
    ELSE LET threshold == cfg[1].trading.slopeThreshold
         IN  IF FracLt(deltaSlope, FracZero) /\ FracLt(slope, threshold)
             THEN [threw |-> FALSE, value |-> "BUY"]
             ELSE IF FracLt(FracZero, deltaSlope) \/ FracLt(threshold, slope)
             THEN [threw |-> FALSE, value |-> "SELL"]
             ELSE [threw |-> FALSE, value |-> "null"]

\* Variant: the comparisons of the BUY rule are not strict (<= for <)
generateSignalLoose(cfg, slope, deltaSlope) ==
    IF slope = Null \/ deltaSlope = Null
    THEN [threw |-> FALSE, value |-> "null"]
    ELSE IF cfg = Null
    THEN [threw |-> TRUE, value |-> "TypeError"]
    ELSE LET threshold == cfg[1].trading.slopeThreshold
         IN  IF ~FracLt(FracZero, deltaSlope) /\ ~FracLt(threshold, slope)
             THEN [threw |-> FALSE, value |-> "BUY"]
             ELSE IF FracLt(FracZero, deltaSlope) \/ FracLt(threshold, slope)
             THEN [threw |-> FALSE, value |-> "SELL"]
             ELSE [threw |-> FALSE, value |-> "null"]

\* generateSignal(slope, deltaSlope), cfg being the module's config.  With
\* config still null, reading config.trading throws a TypeError.
generateSignal(cfg, slope, deltaSlope) ==
    IF slope = Null \/ deltaSlope = Null
    THEN [threw |-> FALSE, value |-> "null"]
    ELSE IF cfg = Null
    THEN [threw |-> TRUE, value |-> "TypeError"]
    ELSE LET threshold == cfg[1].trading.slopeThreshold
         IN  IF FracLt(deltaSlope, FracZero) /\ FracLt(slope, threshold)
             THEN [threw |-> FALSE, value |-> "BUY"]
             ELSE IF FracLt(FracZero, deltaSlope) \/ FracLt(threshold, slope)
             THEN [threw |-> FALSE, value |-> "SELL"]
             ELSE [threw |-> FALSE, value |-> "null"]

\* Variant: the record is appended first and the delta slope taken afterwards
UpdateThenDelta(h, poolData, slope, t) ==
    LET h2 == updateHistory(h, poolData, slope, t)
    IN  [deltaSlope |-> calculateDeltaSlope(h2, poolData.poolAddress, slope),
         history |-> h2]

\* Lines 271-272 of processPoolData: the delta slope is taken from the history
\* as it stands, and only then is the new record appended
DeltaThenUpdate(h, poolData, slope, t) ==
    [deltaSlope |-> calculateDeltaSlope(h, poolData.poolAddress, slope),
     history |-> updateHistory(h, poolData, slope, t)]

\* Variant: a record whose slope is unresolved is entered in the history
\* with the slope 0
processPoolDataRecordsAll(cfg, h, m, t1, t2) ==
    LET extracted == extractPoolData(m, t1)
    IN  IF extracted = Null
        THEN [history |-> h, clock |-> t1, threw |-> FALSE, isNull |-> TRUE]
        ELSE LET poolData == extracted[1]
                 slope == calculateSlope(poolData)
             IN  IF slope = Null
                 THEN [history |-> updateHistory(h, poolData, FracZero, t1),
                       clock |-> t1, threw |-> FALSE, isNull |-> FALSE,
                       poolData |-> poolData, slope |-> Null,
                       deltaSlope |-> Null, signal |-> "null"]
                 ELSE LET du == DeltaThenUpdate(h, poolData, slope, t2)
                          clock == IF FalsyNumber(poolData.timestamp) THEN t2 ELSE t1
                          signal == generateSignal(cfg, slope, du.deltaSlope)
                      IN  IF signal.threw
                          THEN [history |-> du.history, clock |-> clock,
                                threw |-> TRUE, isNull |-> FALSE]
                          ELSE [history |-> du.history, clock |-> clock,
                                threw |-> FALSE, isNull |-> FALSE,
                                poolData |-> poolData, slope |-> slope,
                                deltaSlope |-> du.deltaSlope, signal |-> signal.value]

\* processPoolData(m): the slope history it leaves, the last value it read
\* from the clock, and what it returns or throws.  t1 is the value Date.now()
\* returns in extractPoolData, t2 the value it returns in updateHistory.
processPoolData(cfg, h, m, t1, t2) ==
    LET extracted == extractPoolData(m, t1)
    IN  IF extracted = Null
        THEN [history |-> h, clock |-> t1, threw |-> FALSE, isNull |-> TRUE]
        ELSE LET poolData == extracted[1]
                 slope == calculateSlope(poolData)
             IN  IF slope = Null
                 THEN [history |-> h, clock |-> t1, threw |-> FALSE, isNull |-> FALSE,
                       poolData |-> poolData, slope |-> Null,
                       deltaSlope |-> Null, signal |-> "null"]
                 ELSE LET du == DeltaThenUpdate(h, poolData, slope, t2)
                          clock == IF FalsyNumber(poolData.timestamp) THEN t2 ELSE t1
                          signal == generateSignal(cfg, slope, du.deltaSlope)
                      IN  IF signal.threw
                          THEN [history |-> du.history, clock |-> clock,
                                threw |-> TRUE, isNull |-> FALSE]
                          ELSE [history |-> du.history, clock |-> clock,
                                threw |-> FALSE, isNull |-> FALSE,
                                poolData |-> poolData, slope |-> slope,
                                deltaSlope |-> du.deltaSlope, signal |-> signal.value]

getSlippageThreshold(cfg, strategy) ==
    IF strategy = "B"
    THEN cfg[1].trading.slippageThresholdB
    ELSE cfg[1].trading.slippageThresholdA

getChunkCount == 2

-----------------------------------------------------------------------------
(* tradeSimulator.js *)

\* Math.round of a fraction: the nearest integer, a half rounded up
Round(q) == (2 * q[1] + q[2]) \div (2 * q[2])

\* The binary expansion of a number N/D of [1, 2), carried on for left more
\* bits after a remainder r: the remainder then, and the last bit
RECURSIVE Expand(_, _, _, _)
Expand(r, D, last, left) ==
    IF left = 0
    THEN [r |-> r, last |-> last]
    ELSE IF 2 * r >= D
    THEN Expand(2 * r - D, D, 1, left - 1)
    ELSE Expand(2 * r, D, 0, left - 1)

\* a / d (a, d > 0) as N / D * 2^e with D <= N < 2 * D
RECURSIVE Normal(_, _, _)
Normal(N, D, e) ==
    IF N < D
    THEN Normal(2 * N, D, e - 1)
    ELSE IF N >= 2 * D
    THEN Normal(N, 2 * D, e + 1)
    ELSE [N |-> N, D |-> D, e |-> e]

\* The binary exponent of k + 1/2, counted up from e (-1 for 1/2)
RECURSIVE HalfExponent(_, _)
HalfExponent(k, e) ==
    IF 2 ^ (e + 2) <= 2 * k + 1 THEN HalfExponent(k, e + 1) ELSE e

\* Where the double x * c lies with respect to |q| = k + 1/2, the exact
\* product of the fraction q = a / d and the integer c: x is the double
\* nearest to a / d (52 bits after the leading one, a tie to the even
\* mantissa), the product x * c is rounded to a double once more.  The
\* rounding error of x, at most half a unit in its last place, is r / D or
\* (D - r) / D of that unit; times c it moves the product off k + 1/2 when
\* it exceeds half the distance to the next double on that side.
HalfProduct(a, d, c, k) ==
    LET n == Normal(a, d, 0)
        t == Expand(n.N - n.D, n.D, 1, 52)
        up == 2 * t.r > n.D \/ (2 * t.r = n.D /\ t.last = 1)
        g == HalfExponent(k, -1) - n.e
    IN  IF t.r = 0
        THEN "at"
        ELSE IF up
        THEN IF 2 * c * (n.D - t.r) > n.D * 2 ^ g THEN "above" ELSE "at"
        ELSE IF 2 * c * t.r > n.D * (IF k = 0 THEN 2 ^ (g - 1) ELSE 2 ^ g)
        THEN "below"
        ELSE "at"

\* Math.round(q * c) for the double q of a fraction and an integer c > 0,
\* the product taken on doubles as the code takes it.  The double product
\* is within 2^-52 of the exact one, relatively, so it is rounded as the
\* exact one unless that is an integer and a half: there the product of the
\* doubles may fall to the other side (0.00015 * 10000 is
\* 1.4999999999999998 and is rounded to 1).
RoundProduct(q, c) ==
    LET a == Abs(q[1])
        d == q[2]
        exact == Round(<<q[1] * c, d>>)
        half == a # 0 /\ (2 * c * a) % d = 0 /\ ((2 * c * a) \div d) % 2 = 1
        k == ((2 * c * a) \div d - 1) \div 2
    IN  IF ~half
        THEN exact
        ELSE IF q[1] > 0
        THEN IF HalfProduct(a, d, c, k) = "below" THEN k ELSE k + 1
        ELSE IF HalfProduct(a, d, c, k) = "above" THEN -k - 1 ELSE -k

\* buckets.find(b => bp(b) === target): the first such bucket, Null if none
RECURSIVE FindBucket(_, _)
FindBucket(buckets, target) ==
    IF buckets = <<>>
    THEN Null
    ELSE IF BucketBp(Head(buckets)) = target
    THEN Some(Head(buckets))
    ELSE FindBucket(Tail(buckets), target)

\* Variant: on equal distance the later bucket replaces the earlier one
RECURSIVE ReduceClosestBucketLast(_, _, _)
ReduceClosestBucketLast(closest, rest, target) ==
    IF rest = <<>>
    THEN closest
    ELSE ReduceClosestBucketLast(
             IF Abs(BucketBp(Head(rest)) - target) <= Abs(BucketBp(closest) - target)
             THEN Head(rest)
             ELSE closest,
             Tail(rest), target)

\* buckets.reduce((closest, bucket) => currentDiff < closestDiff ? bucket : closest)
RECURSIVE ReduceClosestBucket(_, _, _)
ReduceClosestBucket(closest, rest, target) ==
    IF rest = <<>>
    THEN closest
    ELSE ReduceClosestBucket(
             IF Abs(BucketBp(Head(rest)) - target) < Abs(BucketBp(closest) - target)
             THEN Head(rest)
             ELSE closest,
             Tail(rest), target)

\* Variant: a SELL is priced at the first bucket of the table, whatever the
\* slippage
getExecutionPriceSellFirst(poolData, amount, slippage, direction) ==
    LET slippageBasisPoints == RoundProduct(slippage, 10000)
        buckets == poolData.slippageBuckets
    IN  IF Len(buckets) = 0
        THEN LET prices == poolData.prices
             IN  IF DOMAIN prices # {}
                     /\ slippageBasisPoints \in DOMAIN prices
                     /\ prices[slippageBasisPoints] # 0
                 THEN Some(prices[slippageBasisPoints])
                 ELSE Null
        ELSE LET found == FindBucket(buckets, slippageBasisPoints)
                 targetBucket == IF direction = "SELL"
                                 THEN Head(buckets)
                                 ELSE IF found # Null
                                 THEN found[1]
                                 ELSE ReduceClosestBucket(Head(buckets), Tail(buckets),
                                                          slippageBasisPoints)
             IN  BucketPrice(targetBucket)

\* getExecutionPrice(poolData, amount, slippage, direction): Null or <<price>>
getExecutionPrice(poolData, amount, slippage, direction) ==
    LET slippageBasisPoints == RoundProduct(slippage, 10000)
        buckets == poolData.slippageBuckets
    IN  IF Len(buckets) = 0
        THEN LET prices == poolData.prices
             IN  IF DOMAIN prices # {}
                     /\ slippageBasisPoints \in DOMAIN prices
                     /\ prices[slippageBasisPoints] # 0
                 THEN Some(prices[slippageBasisPoints])
                 ELSE Null
        ELSE LET found == FindBucket(buckets, slippageBasisPoints)
                 targetBucket == IF found # Null
                                 THEN found[1]
                                 ELSE ReduceClosestBucket(Head(buckets), Tail(buckets),
                                                          slippageBasisPoints)
             IN  BucketPrice(targetBucket)

\* Variant: the id is made of the clock value alone
generateTradeIdClockOnly(t, counter) == <<t, 0>>

\* generateTradeId: `trade-${Date.now()}-${++tradeCounter}`, kept as the pair
\* of numbers the string is made of
generateTradeId(t, counter) == <<t, counter + 1>>

\* The trade object executeBuy builds
NewTrade(poolData, amount, slippage, strategy, price, counter, t1, t2) ==
    [id |-> generateTradeId(t1, counter),
     type |-> "BUY",
     amount |-> amount,
     entryPrice |-> price,
     exitPrice |-> Null,
     entryTimestamp |-> t2,
     exitTimestamp |-> Null,
     poolAddress |-> IF poolData.poolAddress # "" THEN poolData.poolAddress ELSE "unknown",
     strategy |-> strategy,
     slippage |-> slippage]

\* Variant: an open position already held is kept as the open position
PushAndOpenKeepFirst(ledger, trade) ==
    [trades |-> Append(ledger.trades, trade),
     openPosition |-> IF ledger.openPosition # 0
                      THEN ledger.openPosition
                      ELSE Len(ledger.trades) + 1]

\* Variant: a trade still open is overwritten by the new one
PushAndOpenReplace(ledger, trade) ==
    IF ledger.openPosition # 0
    THEN [trades |-> [ledger.trades EXCEPT ![ledger.openPosition] = trade],
          openPosition |-> ledger.openPosition]
    ELSE [trades |-> Append(ledger.trades, trade),
          openPosition |-> Len(ledger.trades) + 1]

\* The ledger after trades.push(trade); openPosition = trade
PushAndOpen(ledger, trade) ==
    [trades |-> Append(ledger.trades, trade),
     openPosition |-> Len(ledger.trades) + 1]

\* Variant: the trade is pushed before the price is checked
executeBuyPushFirst(ledger, clock, poolData, amount, slippage, strategy, t1, t2) ==
    LET price == getExecutionPrice(poolData, amount, slippage, "BUY")
        trade == NewTrade(poolData, amount, slippage, strategy,
                          IF Truthy(price) THEN price[1] ELSE 0,
                          ledger.tradeCounter, t1, t2)
        pushed == [trades |-> Append(ledger.trades, trade),
                   openPosition |-> Len(ledger.trades) + 1,
                   tradeCounter |-> ledger.tradeCounter + 1]
    IN  IF ~Truthy(price)
        THEN [ledger |-> pushed, clock |-> t2, threw |-> TRUE,
              value |-> "Unable to determine execution price for BUY"]
        ELSE [ledger |-> pushed, clock |-> t2, threw |-> FALSE, value |-> trade]

\* executeBuy on the ledger [trades, openPosition, tradeCounter]: the ledger
\* it leaves, the last clock value it read, and what it returns or throws.
\* t1, t2 are the values of its two reads of Date.now().
executeBuy(ledger, clock, poolData, amount, slippage, strategy, t1, t2) ==
    LET price == getExecutionPrice(poolData, amount, slippage, "BUY")
    IN  IF ~Truthy(price)
        THEN [ledger |-> ledger, clock |-> clock, threw |-> TRUE,
              value |-> "Unable to determine execution price for BUY"]
        ELSE LET trade == NewTrade(poolData, amount, slippage, strategy, price[1],
                                   ledger.tradeCounter, t1, t2)
                 pushed == PushAndOpen(ledger, trade)
             IN  [ledger |-> [trades |-> pushed.trades,
                              openPosition |-> pushed.openPosition,
                              tradeCounter |-> ledger.tradeCounter + 1],
                  clock |-> t2, threw |-> FALSE, value |-> trade]

\* Variant: the closed copy is pushed as a new entry, the open one left as is
CloseOpenAppend(ledger, price, t1, t2) ==
    LET i == ledger.openPosition
        closed == [ledger.trades[i] EXCEPT !.exitPrice = Some(price),
                                           !.exitTimestamp = Some(t1)]
    IN  [ledger |-> [trades |-> Append(ledger.trades, closed),
                     openPosition |-> 0,
                     tradeCounter |-> ledger.tradeCounter],
         value |-> [closed EXCEPT !.exitTimestamp = Some(t2)]]

\* Variant: the oldest entry without exit price is closed, not the open position
CloseOpenOldest(ledger, price, t1, t2) ==
    LET i == CHOOSE j \in 1..Len(ledger.trades) :
                 /\ ledger.trades[j].exitPrice = Null
                 /\ \A k \in 1..(j - 1) : ledger.trades[k].exitPrice # Null
        closed == [ledger.trades[i] EXCEPT !.exitPrice = Some(price),
                                           !.exitTimestamp = Some(t1)]
    IN  [ledger |-> [trades |-> [ledger.trades EXCEPT ![i] = closed],
                     openPosition |-> 0,
                     tradeCounter |-> ledger.tradeCounter],
         value |-> [closed EXCEPT !.exitTimestamp = Some(t2)]]

\* Variant: after a close the entry before, if without exit price, becomes
\* the open position again
CloseOpenReopenPrevious(ledger, price, t1, t2) ==
    LET i == ledger.openPosition
        closed == [ledger.trades[i] EXCEPT !.exitPrice = Some(price),
                                           !.exitTimestamp = Some(t1)]
    IN  [ledger |-> [trades |-> [ledger.trades EXCEPT ![i] = closed],
                     openPosition |-> IF i > 1 /\ ledger.trades[i - 1].exitPrice = Null
                                      THEN i - 1
                                      ELSE 0,
                     tradeCounter |-> ledger.tradeCounter],
         value |-> [closed EXCEPT !.exitTimestamp = Some(t2)]]

\* Variant: the exit timestamp is written to every entry that has one
CloseOpenStampAll(ledger, price, t1, t2) ==
    LET i == ledger.openPosition
        closed == [ledger.trades[i] EXCEPT !.exitPrice = Some(price),
                                           !.exitTimestamp = Some(t1)]
    IN  [ledger |-> [trades |-> [j \in 1..Len(ledger.trades) |->
                                    IF j = i
                                    THEN closed
                                    ELSE IF ledger.trades[j].exitTimestamp # Null
                                    THEN [ledger.trades[j] EXCEPT
                                              !.exitTimestamp = Some(t1)]
                                    ELSE ledger.trades[j]],
                     openPosition |-> 0,
                     tradeCounter |-> ledger.tradeCounter],
         value |-> [closed EXCEPT !.exitTimestamp = Some(t2)]]

\* Lines 102-111 of executeSell: the open trade is closed in place, a copy of
\* it is returned, and the open position is cleared
CloseOpen(ledger, price, t1, t2) ==
    LET i == ledger.openPosition
        closed == [ledger.trades[i] EXCEPT !.exitPrice = Some(price),
                                           !.exitTimestamp = Some(t1)]
    IN  [ledger |-> [trades |-> [ledger.trades EXCEPT ![i] = closed],
                     openPosition |-> 0,
                     tradeCounter |-> ledger.tradeCounter],
         value |-> [closed EXCEPT !.exitTimestamp = Some(t2)]]

\* Variant: the open position is cleared before the price is resolved
executeSellClearFirst(ledger, clock, poolData, amount, slippage, strategy, t1, t2) ==
    IF ledger.openPosition = 0
    THEN [ledger |-> ledger, clock |-> clock, threw |-> FALSE, value |-> Null]
    ELSE LET price == getExecutionPrice(poolData, amount, slippage, "SELL")
         IN  IF ~Truthy(price)
             THEN [ledger |-> [ledger EXCEPT !.openPosition = 0], clock |-> clock,
                   threw |-> TRUE,
                   value |-> "Unable to determine execution price for SELL"]
             ELSE LET c == CloseOpen(ledger, price[1], t1, t2)
                  IN  [ledger |-> c.ledger, clock |-> t2, threw |-> FALSE,
                       value |-> c.value]

\* Variant: the price is resolved before the open position is looked at
executeSellPriceFirst(ledger, clock, poolData, amount, slippage, strategy, t1, t2) ==
    LET price == getExecutionPrice(poolData, amount, slippage, "SELL")
    IN  IF ~Truthy(price)
        THEN [ledger |-> ledger, clock |-> clock, threw |-> TRUE,
              value |-> "Unable to determine execution price for SELL"]
        ELSE IF ledger.openPosition = 0
        THEN [ledger |-> ledger, clock |-> clock, threw |-> FALSE, value |-> Null]
        ELSE LET c == CloseOpen(ledger, price[1], t1, t2)
             IN  [ledger |-> c.ledger, clock |-> t2, threw |-> FALSE,
                  value |-> c.value]

\* Variant: the open position is closed only by a snapshot of its own pool
executeSellSamePool(ledger, clock, poolData, amount, slippage, strategy, t1, t2) ==
    IF ledger.openPosition = 0
       \/ ledger.trades[ledger.openPosition].poolAddress # poolData.poolAddress
    THEN [ledger |-> ledger, clock |-> clock, threw |-> FALSE, value |-> Null]
    ELSE LET price == getExecutionPrice(poolData, amount, slippage, "SELL")
         IN  IF ~Truthy(price)
             THEN [ledger |-> ledger, clock |-> clock, threw |-> TRUE,
                   value |-> "Unable to determine execution price for SELL"]
             ELSE LET c == CloseOpen(ledger, price[1], t1, t2)
                  IN  [ledger |-> c.ledger, clock |-> t2, threw |-> FALSE,
                       value |-> c.value]

\* Variant: without an open position the last entry without exit price is
\* looked up in the ledger and closed
executeSellAnyOpen(ledger, clock, poolData, amount, slippage, strategy, t1, t2) ==
    LET left == {i \in 1..Len(ledger.trades) : ledger.trades[i].exitPrice = Null}
        at == IF ledger.openPosition # 0
              THEN ledger.openPosition
              ELSE IF left = {}
              THEN 0
              ELSE CHOOSE i \in left : \A j \in left : j <= i
    IN  IF at = 0
        THEN [ledger |-> ledger, clock |-> clock, threw |-> FALSE, value |-> Null]
        ELSE LET price == getExecutionPrice(poolData, amount, slippage, "SELL")
             IN  IF ~Truthy(price)
                 THEN [ledger |-> ledger, clock |-> clock, threw |-> TRUE,
                       value |-> "Unable to determine execution price for SELL"]
                 ELSE LET c == CloseOpen([ledger EXCEPT !.openPosition = at],
                                         price[1], t1, t2)
                      IN  [ledger |-> c.ledger, clock |-> t2, threw |-> FALSE,
                           value |-> c.value]

\* executeSell on the ledger: as executeBuy
executeSell(ledger, clock, poolData, amount, slippage, strategy, t1, t2) ==
    IF ledger.openPosition = 0
    THEN [ledger |-> ledger, clock |-> clock, threw |-> FALSE, value |-> Null]
    ELSE LET price == getExecutionPrice(poolData, amount, slippage, "SELL")
         IN  IF ~Truthy(price)
             THEN [ledger |-> ledger, clock |-> clock, threw |-> TRUE,
                   value |-> "Unable to determine execution price for SELL"]
             ELSE LET c == CloseOpen(ledger, price[1], t1, t2)
                  IN  [ledger |-> c.ledger, clock |-> t2, threw |-> FALSE,
                       value |-> c.value]

\* Variant: the price difference alone, the amount left out
calculatePnLUnit(trade) ==
    IF ~Truthy(trade.exitPrice)
    THEN FracZero
    ELSE IF trade.type = "BUY"
    THEN <<trade.exitPrice[1] - trade.entryPrice, 1>>
    ELSE <<trade.entryPrice - trade.exitPrice[1], 1>>

\* calculatePnL(trade): 0 for a trade without exit price
calculatePnL(trade) ==
    IF ~Truthy(trade.exitPrice)
    THEN FracZero
    ELSE IF trade.type = "BUY"
    THEN FracMul(<<trade.exitPrice[1] - trade.entryPrice, 1>>, trade.amount)
    ELSE FracMul(<<trade.entryPrice - trade.exitPrice[1], 1>>, trade.amount)

\* trs.filter(keep), keep being a set of trades
RECURSIVE Filter(_, _)
Filter(trs, keep) ==
    IF trs = <<>>
    THEN <<>>
    ELSE (IF Head(trs) \in keep THEN <<Head(trs)>> ELSE <<>>) \o Filter(Tail(trs), keep)

FracAdd(a, b) == Frac(a[1] * b[2] + b[1] * a[2], a[2] * b[2])

\* Variant: the accumulator is dropped, the pnl of the last trade is returned
RECURSIVE SumPnLLast(_)
SumPnLLast(trs) ==
    IF trs = <<>>
    THEN FracZero
    ELSE calculatePnL(trs[Len(trs)])

\* trs.reduce((sum, t) => sum + calculatePnL(t), 0)
RECURSIVE SumPnL(_)
SumPnL(trs) ==
    IF trs = <<>>
    THEN FracZero
    ELSE FracAdd(SumPnL(SubSeq(trs, 1, Len(trs) - 1)), calculatePnL(trs[Len(trs)]))

\* trs.reduce((sum, t) => sum + t.entryPrice, 0)
RECURSIVE SumEntryPrice(_)
SumEntryPrice(trs) ==
    IF trs = <<>> THEN 0 ELSE trs[1].entryPrice + SumEntryPrice(Tail(trs))

\* Variant: totalTrades counts the closed trades and the open position only
getPerformanceSummaryNoOrphans(ledger) ==
    LET all == {ledger.trades[i] : i \in 1..Len(ledger.trades)}
        closedTrades == Filter(ledger.trades, {t \in all : t.exitPrice # Null})
        wins == Filter(closedTrades, {t \in all : FracLt(FracZero, calculatePnL(t))})
    IN  [totalTrades |-> Len(closedTrades) + (IF ledger.openPosition # 0 THEN 1 ELSE 0),
         closedTrades |-> Len(closedTrades),
         openPosition |-> IF ledger.openPosition # 0 THEN 1 ELSE 0,
         totalPnL |-> SumPnL(closedTrades),
         winRate |-> IF Len(closedTrades) > 0
                     THEN Frac(Len(wins), Len(closedTrades))
                     ELSE FracZero,
         averageExecutionPrice |-> IF Len(closedTrades) > 0
                                   THEN Frac(SumEntryPrice(closedTrades), Len(closedTrades))
                                   ELSE FracZero,
         trades |-> ledger.trades]

\* Variant: a closed trade with pnl 0 counts as a win
getPerformanceSummaryZeroWins(ledger) ==
    LET all == {ledger.trades[i] : i \in 1..Len(ledger.trades)}
        closedTrades == Filter(ledger.trades, {t \in all : t.exitPrice # Null})
        wins == Filter(closedTrades, {t \in all : ~FracLt(calculatePnL(t), FracZero)})
    IN  [totalTrades |-> Len(ledger.trades),
         closedTrades |-> Len(closedTrades),
         openPosition |-> IF ledger.openPosition # 0 THEN 1 ELSE 0,
         totalPnL |-> SumPnL(closedTrades),
         winRate |-> IF Len(closedTrades) > 0
                     THEN Frac(Len(wins), Len(closedTrades))
                     ELSE FracZero,
         averageExecutionPrice |-> IF Len(closedTrades) > 0
                                   THEN Frac(SumEntryPrice(closedTrades), Len(closedTrades))
                                   ELSE FracZero,
         trades |-> ledger.trades]

\* Variant: the closed trades are filtered with `!== undefined`, which every
\* trade passes
getPerformanceSummaryAllClosed(ledger) ==
    LET all == {ledger.trades[i] : i \in 1..Len(ledger.trades)}
        closedTrades == ledger.trades
        wins == Filter(closedTrades, {t \in all : FracLt(FracZero, calculatePnL(t))})
    IN  [totalTrades |-> Len(ledger.trades),
         closedTrades |-> Len(closedTrades),
         openPosition |-> IF ledger.openPosition # 0 THEN 1 ELSE 0,
         totalPnL |-> SumPnL(closedTrades),
         winRate |-> IF Len(closedTrades) > 0
                     THEN Frac(Len(wins), Len(closedTrades))
                     ELSE FracZero,
         averageExecutionPrice |-> IF Len(closedTrades) > 0
                                   THEN Frac(SumEntryPrice(closedTrades), Len(closedTrades))
                                   ELSE FracZero,
         trades |-> ledger.trades]

\* getPerformanceSummary() on the ledger
getPerformanceSummary(ledger) ==
    LET all == {ledger.trades[i] : i \in 1..Len(ledger.trades)}
        closedTrades == Filter(ledger.trades, {t \in all : t.exitPrice # Null})
        wins == Filter(closedTrades, {t \in all : FracLt(FracZero, calculatePnL(t))})
    IN  [totalTrades |-> Len(ledger.trades),
         closedTrades |-> Len(closedTrades),
         openPosition |-> IF ledger.openPosition # 0 THEN 1 ELSE 0,
         totalPnL |-> SumPnL(closedTrades),
         winRate |-> IF Len(closedTrades) > 0
                     THEN Frac(Len(wins), Len(closedTrades))
                     ELSE FracZero,
         averageExecutionPrice |-> IF Len(closedTrades) > 0
                                   THEN Frac(SumEntryPrice(closedTrades), Len(closedTrades))
                                   ELSE FracZero,
         trades |-> ledger.trades]

resetTrades == [trades |-> <<>>, openPosition |-> 0, tradeCounter |-> 0]

-----------------------------------------------------------------------------
(* index.js (src/unnamed/part_000) *)

\* Variant: under strategy B every chunk has the whole tradeSize
ChunkSizesUndivided(cfg) ==
    IF cfg[1].trading.strategy = "A"
    THEN <<cfg[1].trading.tradeSize>>
    ELSE IF cfg[1].trading.strategy = "B"
    THEN [i \in 1..getChunkCount |-> cfg[1].trading.tradeSize]
    ELSE <<>>

\* The chunks of one signal: one call with tradeSize under strategy A,
\* getChunkCount() calls with tradeSize / chunkCount under strategy B
ChunkSizes(cfg) ==
    IF cfg[1].trading.strategy = "A"
    THEN <<cfg[1].trading.tradeSize>>
    ELSE IF cfg[1].trading.strategy = "B"
    THEN [i \in 1..getChunkCount |->
             Frac(cfg[1].trading.tradeSize[1],
                  cfg[1].trading.tradeSize[2] * getChunkCount)]
    ELSE <<>>

\* The calls of one signal, made in turn on the ledger until one throws.
\* reads is the sequence of clock values still to be read, two per call.
RECURSIVE RunChunks(_, _, _, _, _, _, _, _)
RunChunks(signal, ledger, clock, poolData, sizes, slippage, strategy, reads) ==
    IF sizes = <<>>
    THEN [ledger |-> ledger, clock |-> clock, caught |-> FALSE]
    ELSE LET r == IF signal = "BUY"
                  THEN executeBuy(ledger, clock, poolData, Head(sizes), slippage,
                                  strategy, reads[1], reads[2])
                  ELSE executeSell(ledger, clock, poolData, Head(sizes), slippage,
                                   strategy, reads[1], reads[2])
         IN  IF r.threw
             THEN [ledger |-> r.ledger, clock |-> r.clock, caught |-> TRUE]
             ELSE RunChunks(signal, r.ledger, r.clock, poolData, Tail(sizes),
                            slippage, strategy, SubSeq(reads, 3, Len(reads)))

\* executeStrategy(signal, poolData, slope, deltaSlope): an error of
\* executeBuy or executeSell is caught and logged
executeStrategy(cfg, ledger, clock, signal, poolData, reads) ==
    LET strategy == cfg[1].trading.strategy
        slippage == getSlippageThreshold(cfg, strategy)
    IN  RunChunks(signal, ledger, clock, poolData, ChunkSizes(cfg), slippage,
                  strategy, reads)

\* The rest of handleMessage once processPoolData has returned r: nothing
\* is executed when it threw, returned null or gave no signal
Executed(r, e) ==
    [history |-> r.history, ledger |-> e.ledger, clock |-> e.clock,
     caught |-> e.caught, signal |-> r.signal]

Dispatch(cfg, ledger, r, reads) ==
    IF r.threw
    THEN [history |-> r.history, ledger |-> ledger, clock |-> r.clock,
          caught |-> TRUE, signal |-> "null"]
    ELSE IF r.isNull \/ r.signal = "null"
    THEN [history |-> r.history, ledger |-> ledger, clock |-> r.clock,
          caught |-> FALSE, signal |-> "null"]
    ELSE Executed(r, executeStrategy(cfg, ledger, r.clock, r.signal, r.poolData, reads))

\* Lines 43-59 of handleMessage: decodeMessage, which has thrown when decoded
\* is Null, nothing being read from the clock, and processPoolData
DecodeAndProcess(cfg, h, clock, decoded, t1, t2) ==
    IF decoded = Null
    THEN [history |-> h, clock |-> clock, threw |-> TRUE, isNull |-> FALSE]
    ELSE processPoolData(cfg, h, decoded, t1, t2)

\* handleMessage(message): decoded is Null when decodeMessage throws.  The
\* first two of reads are the clock values processPoolData reads, the rest
\* those of executeStrategy.  Every error is caught and logged.
handleMessage(cfg, h, ledger, clock, decoded, reads) ==
    Dispatch(cfg, ledger, DecodeAndProcess(cfg, h, clock, decoded, reads[1], reads[2]),
             SubSeq(reads, 3, Len(reads)))

-----------------------------------------------------------------------------
(* Inputs: configurations and decoded records *)

\* config.js: the trading section; fractions are exact
Config(threshold, strategy) ==
    [trading |-> [tradeSize |-> <<1, 1>>,
                  slippageThresholdA |-> <<1, 100>>,
                  slippageThresholdB |-> <<1, 200>>,
                  slopeThreshold |-> threshold,
                  strategy |-> strategy]]

DefaultThreshold == <<-1, 1000>>

Thresholds == {DefaultThreshold, FracZero}

Configs == {Config(th, s) : th \in Thresholds, s \in {"A", "B"}}

Pools == {"0xpoolX", "0xpoolY"}

\* slope -1/1000, the default threshold
TableAt == <<Bucket(10, Some(1000)), Bucket(100, Some(999))>>

\* slope -1/100, below the default threshold
TableBelow == <<Bucket(10, Some(100)), Bucket(100, Some(99))>>

\* slope 0, above the default threshold
TableFlat == <<Bucket(10, Some(100)), Bucket(100, Some(100))>>

\* slope 1/20
TableUp == <<Bucket(10, Some(100)), Bucket(100, Some(105))>>

\* buckets whose prices are 0 or missing: no price is extracted
TableNoPrice == <<Bucket(10, Some(0)), Bucket(100, Null)>>

Tables == {TableAt, TableBelow, TableFlat, TableUp, TableNoPrice, <<>>}

Message(pool, a, b, time, atob, btoa) ==
    [poolAddress |-> pool, addressA |-> a, addressB |-> b, time |-> time,
     liquidity |-> 7, atoBPrices |-> atob, btoAPrices |-> btoa]

LongTime(v) == [kind |-> "long", value |-> v]

NumberTime(v) == [kind |-> "number", value |-> v]

StringTime(s) == [kind |-> "string", value |-> s]

\* a Time that is an object with low and without high
OtherTime == [kind |-> "other"]

\* The string of U+000B, U+00A0, U+2028, U+FEFF and a space before "12px"
TimeSpaced == <<11, 160, 8232, 65279, 32, 49, 50, 112, 120>>

\* The string of U+00E9, which is no white space, before "12"
TimeAccented == <<233, 49, 50>>

\* WETH/USDT records of the two pools, those of the second pool with
\* addresses in upper case and with a time that is a string or the number 0
PairMessages ==
    {Message(Some("0xpoolX"), WETH_ADDRESS, USDT_ADDRESS, Null, tb, <<>>) :
        tb \in Tables}
    \cup {Message(Some("0xpoolY"), WETH_0X_UPPER, USDT_UPPER,
                  StringTime(TimeSpaced), TableBelow, <<>>),
          Message(Some("0xpoolY"), WETH_CHECKSUM, USDT_UPPER, NumberTime(0),
                  TableUp, <<>>)}

\* Records that exercise the filter, the direction, the spellings, the
\* missing or empty pool address and the other timestamp formats
OtherMessages ==
    {Message(Some("0xpoolX"), USDT_CHECKSUM, WETH_CHECKSUM, OtherTime, TableUp, TableBelow),
     Message(Some("0xpoolX"), <<>>, DAI_ADDRESS, Null, TableBelow, TableBelow),
     Message(Some("0xpoolY"), WETH_ADDRESS, WETH_ADDRESS, LongTime(0), TableFlat, TableUp),
     Message(Null, USDT_ADDRESS, USDT_ADDRESS, LongTime(5), TableAt, TableUp),
     Message(Some(""), USDT_UPPER, WETH_0X_UPPER, StringTime(TimeAccented),
             TableUp, TableBelow)}

Messages == PairMessages \cup OtherMessages

\* A table with a slope, -1/200, whose buckets at 50 and at 100 basis points
\* have price 0: no execution price is resolved under either strategy
TableGap ==
    <<Bucket(10, Some(200)), Bucket(50, Some(0)), Bucket(90, Some(199)),
      Bucket(100, Some(0))>>

\* config.js as the application loads it: the default threshold, either
\* strategy
AppConfigs == {Config(DefaultThreshold, s) : s \in {"A", "B"}}

\* The records delivered to the application: WETH/USDT records of two pools,
\* the second pool's with its addresses in upper case, and two records the
\* filter drops, one for its token B and one for its token A
AppMessages ==
    {Message(Some("0xpoolX"), WETH_ADDRESS, USDT_ADDRESS, Null, tb, <<>>) :
        tb \in {TableBelow, TableFlat, TableUp, TableGap}}
    \cup {Message(Some("0xpoolY"), WETH_0X_UPPER, USDT_UPPER, Null, TableUp, <<>>),
          Message(Some("0xpoolX"), WETH_ADDRESS, DAI_ADDRESS, Null, TableBelow, TableBelow),
          Message(Some("0xpoolX"), DAI_ADDRESS, USDT_ADDRESS, Null, TableBelow, TableBelow)}

\* Two reads of Date.now() in a row
ClockReads == {<<t1, t2>> \in (1..MaxClock) \X (1..MaxClock) : t1 <= t2}

-----------------------------------------------------------------------------
(* State after the modules are loaded *)

Init ==
    /\ config = Null
    /\ slopeHistory = EmptyObject
    /\ trades = <<>>
    /\ openPosition = 0
    /\ tradeCounter = 0
    /\ now = 1
    /\ pending = <<>>
    /\ phase = "up"
    /\ result = [op |-> "none"]
    /\ arrivals = [p \in Pools \cup {"unknown"} |-> <<>>]
    /\ gaps = [p \in Pools \cup {"unknown"} |-> <<0>>]
    /\ steps = 0

-----------------------------------------------------------------------------
(* Calls of the strategy engine *)

InitializeStrategy(cfg) ==
    /\ config' = Some(cfg)
    /\ result' = [op |-> "initializeStrategy"]
    /\ UNCHANGED <<slopeHistory, trades, openPosition, tradeCounter, now, arrivals, gaps, pending, phase>>

WarmTables == <<TableBelow, TableAt, TableFlat>>

WarmMessage(n) ==
    Message(Some("0xpoolX"), WETH_ADDRESS, USDT_ADDRESS, Null,
            WarmTables[(n % 3) + 1], <<>>)

\* The records of all the feeds
Records == Messages \cup AppMessages \cup {WarmMessage(n) : n \in 0..2}

\* The pool of record m; Null when it is filtered.  Tabulated over the
\* records, as the table of resolved slopes below.
PoolTable ==
    [m \in Records |->
        LET e == extractPoolData(m, 1)
        IN  IF e = Null THEN Null ELSE Some(e[1].poolAddress)]

PoolOf(m) == PoolTable[m]

ObservedTable ==
    [m \in Records |->
        LET e == extractPoolData(m, 1)
            slope == calculateSlope(e[1])
        IN  IF e = Null \/ slope = Null
            THEN Null
            ELSE [poolAddress |-> e[1].poolAddress, slope |-> slope]]

\* The pool and the resolved slope of record m; Null when the record is
\* filtered or its slope is unresolved
Observed(m) == ObservedTable[m]

\* arrivals after record m: its slope, when resolved, is the pool's newest
Observe(m) ==
    LET o == Observed(m)
    IN  IF o = Null
        THEN arrivals
        ELSE [arrivals EXCEPT ![o.poolAddress] = Append(@, o.slope)]

\* gaps after record m: an unresolved slope is counted at the end of the
\* pool's sequence, a resolved one begins a new count
ObserveGap(m) ==
    IF PoolOf(m) = Null
    THEN gaps
    ELSE IF Observed(m) = Null
    THEN [gaps EXCEPT ![PoolOf(m)[1]] = [@ EXCEPT ![Len(@)] = @ + 1]]
    ELSE [gaps EXCEPT ![PoolOf(m)[1]] = Append(@, 0)]

\* One call processPoolData(m), the clock reading t1 and then t2
ProcessWith(m, t1, t2) ==
    \E r \in {processPoolData(config, slopeHistory, m, t1, t2)} :
        /\ slopeHistory' = r.history
        /\ now' = r.clock
        /\ result' = [op |-> "processPoolData", arg |-> m,
                      out |-> [f \in DOMAIN r \ {"history", "clock"} |-> r[f]]]
        /\ arrivals' = Observe(m)
        /\ gaps' = ObserveGap(m)
        /\ UNCHANGED <<config, trades, openPosition, tradeCounter, pending, phase>>

Step == steps' = steps + 1

EngineInitialize(cfg) ==
    /\ InitializeStrategy(cfg)
    /\ UNCHANGED steps

ProcessPoolData(m) ==
    /\ steps < MaxSteps
    /\ \E ts \in ClockReads :
          /\ now <= ts[1]
          /\ ProcessWith(m, ts[1], ts[2])
    /\ Step

NextEngine ==
    \/ \E th \in Thresholds : EngineInitialize(Config(th, "A"))
    \/ \E m \in Messages : ProcessPoolData(m)

SpecEngine == Init /\ [][NextEngine]_vars

-----------------------------------------------------------------------------
(* A long feed: the first MaxWarm records are a fixed cycle of pool X's      *)
(* records read at a standing clock, the MaxTail records after them are      *)
(* arbitrary.                                                                *)

FeedInitialize ==
    /\ steps = 0
    /\ config = Null
    /\ InitializeStrategy(Config(DefaultThreshold, "A"))
    /\ UNCHANGED steps

FeedWarm ==
    /\ steps < MaxWarm
    /\ ProcessWith(WarmMessage(steps), now, now)
    /\ Step

FeedTail(m) ==
    /\ steps >= MaxWarm
    /\ steps < MaxWarm + MaxTail
    /\ \E ts \in ClockReads :
          /\ now <= ts[1]
          /\ ProcessWith(m, ts[1], ts[2])
    /\ Step

NextHistory ==
    \/ FeedInitialize
    \/ FeedWarm
    \/ \E m \in Messages : FeedTail(m)

SpecHistory == Init /\ [][NextHistory]_vars

-----------------------------------------------------------------------------
(* calculateSlope on price maps: its only input is poolData.prices.  The     *)
(* keys lie at, and at equal distances around, the two references; a price   *)
(* 0 is a value the function guards against, though extractPoolData never    *)
(* stores one.  The function reads and writes no state, so one call on the   *)
(* loaded module shows all it does.                                          *)

SlopeKeys == {5, 10, 15, 55, 100, 145}

SlopePrices == {0, 99, 100}

PriceMaps ==
    UNION {[K -> SlopePrices] :
              K \in {S \in SUBSET SlopeKeys : Cardinality(S) <= MaxKeys}}

CalculateSlope(prices) ==
    /\ result' = [op |-> "calculateSlope", prices |-> prices,
                  value |-> calculateSlope([prices |-> prices])]
    /\ Step
    /\ UNCHANGED <<config, slopeHistory, trades, openPosition, tradeCounter, now,
                   arrivals, gaps, pending, phase>>

NextSlope ==
    /\ steps = 0
    /\ \E prices \in PriceMaps : CalculateSlope(prices)

SpecSlope == Init /\ [][NextSlope]_vars

-----------------------------------------------------------------------------
(* Calls of the trade simulator *)

\* Snapshots handed to executeBuy and executeSell: what extractPoolData makes
\* of a WETH/USDT record, and one object with a prices map and no bucket table
Snapshot(pool, table) ==
    extractPoolData(Message(Some(pool), WETH_ADDRESS, USDT_ADDRESS, Null, table, <<>>), 1)[1]

PricesOnly ==
    [poolAddress |-> "", slippageBuckets |-> <<>>, prices |-> [k \in {100} |-> 98]]

Snapshots ==
    {Snapshot("0xpoolX", TableBelow), Snapshot("0xpoolY", TableUp),
     Snapshot("0xpoolX", TableNoPrice), PricesOnly}

\* amount, slippage, strategy as executeStrategy passes them under A and under B
CallArgs == {<<<<1, 1>>, <<1, 100>>, "A">>, <<<<1, 2>>, <<1, 200>>, "B">>}

Ledger == [trades |-> trades, openPosition |-> openPosition, tradeCounter |-> tradeCounter]

SetLedger(l) ==
    /\ trades' = l.trades
    /\ openPosition' = l.openPosition
    /\ tradeCounter' = l.tradeCounter

ExecuteBuy(poolData, a) ==
    /\ steps < MaxCalls
    /\ \E ts \in ClockReads :
          /\ now <= ts[1]
          /\ \E r \in {executeBuy(Ledger, now, poolData, a[1], a[2], a[3], ts[1], ts[2])} :
                 /\ SetLedger(r.ledger)
                 /\ now' = r.clock
                 /\ result' = [op |-> "executeBuy", poolData |-> poolData,
                               amount |-> a[1], slippage |-> a[2], strategy |-> a[3],
                               threw |-> r.threw, value |-> r.value]
    /\ Step
    /\ UNCHANGED <<config, slopeHistory, arrivals, gaps, pending, phase>>

ExecuteSell(poolData, a) ==
    /\ steps < MaxCalls
    /\ \E ts \in ClockReads :
          /\ now <= ts[1]
          /\ \E r \in {executeSell(Ledger, now, poolData, a[1], a[2], a[3], ts[1], ts[2])} :
                 /\ SetLedger(r.ledger)
                 /\ now' = r.clock
                 /\ result' = [op |-> "executeSell", poolData |-> poolData,
                               amount |-> a[1], slippage |-> a[2], strategy |-> a[3],
                               threw |-> r.threw, value |-> r.value]
    /\ Step
    /\ UNCHANGED <<config, slopeHistory, arrivals, gaps, pending, phase>>

\* calculatePnL on a trade of the ledger.  The two calls that only read the
\* ledger are not counted against MaxCalls.
CalculatePnL(i) ==
    /\ result' = [op |-> "calculatePnL", trade |-> trades[i],
                  threw |-> FALSE, value |-> calculatePnL(trades[i])]
    /\ UNCHANGED <<config, slopeHistory, trades, openPosition, tradeCounter, now,
                   arrivals, gaps, steps, pending, phase>>

GetPerformanceSummary ==
    /\ result' = [op |-> "getPerformanceSummary",
                  threw |-> FALSE, value |-> getPerformanceSummary(Ledger)]
    /\ UNCHANGED <<config, slopeHistory, trades, openPosition, tradeCounter, now,
                   arrivals, gaps, steps, pending, phase>>

ResetTrades ==
    /\ steps < MaxCalls
    /\ SetLedger(resetTrades)
    /\ result' = [op |-> "resetTrades", threw |-> FALSE, value |-> Null]
    /\ Step
    /\ UNCHANGED <<config, slopeHistory, now, arrivals, gaps, pending, phase>>

NextLedger ==
    \/ \E pd \in Snapshots, a \in CallArgs : ExecuteBuy(pd, a)
    \/ \E pd \in Snapshots, a \in CallArgs : ExecuteSell(pd, a)
    \/ \E i \in 1..Len(trades) : CalculatePnL(i)
    \/ GetPerformanceSummary
    \/ ResetTrades

SpecLedger == Init /\ [][NextLedger]_vars

-----------------------------------------------------------------------------
(* getExecutionPrice on bucket tables of up to MaxBuckets entries, in any    *)
(* order and with repeated basis points, and on a snapshot with a prices map *)
(* only; one call, as for calculateSlope                                     *)

PriceBuckets ==
    {Bucket(bp, Some(pr)) : bp \in {10, 50, 90, 100}, pr \in {0, 98, 99}}

PriceTables == UNION {[1..n -> PriceBuckets] : n \in 1..MaxBuckets}

\* Buckets at 1 and at 2 basis points, and at 14 and at 15
TableLow == <<Bucket(1, Some(11)), Bucket(2, Some(22))>>
TableMid == <<Bucket(15, Some(150)), Bucket(14, Some(140))>>

\* A snapshot with a prices map only, keyed 1 and 2
PricesLow ==
    [poolAddress |-> "", slippageBuckets |-> <<>>, prices |-> (1 :> 11) @@ (2 :> 22)]

PriceSnapshots ==
    {[poolAddress |-> "0xpoolX", slippageBuckets |-> tb,
      prices |-> BuildPrices(tb, EmptyObject)] : tb \in PriceTables}
    \cup {Snapshot("0xpoolX", TableLow), Snapshot("0xpoolX", TableMid)}
    \cup {PricesOnly, PricesLow}

\* 100, 50, 7.5 and 1/3 basis points, and 1.5 and 14.5, whose products with
\* 10000 on doubles fall below the half
Slippages ==
    {<<1, 100>>, <<1, 200>>, <<3, 4000>>, <<1, 30000>>, <<3, 20000>>, <<29, 20000>>}

PriceCalls == {<<<<1, 1>>, "BUY">>, <<<<1, 2>>, "SELL">>}

GetExecutionPrice(poolData, slippage, c) ==
    /\ result' = [op |-> "getExecutionPrice", poolData |-> poolData,
                  amount |-> c[1], slippage |-> slippage, direction |-> c[2],
                  value |-> getExecutionPrice(poolData, c[1], slippage, c[2])]
    /\ Step
    /\ UNCHANGED <<config, slopeHistory, trades, openPosition, tradeCounter, now,
                   arrivals, gaps, pending, phase>>

NextPrice ==
    /\ steps = 0
    /\ \E pd \in PriceSnapshots, sl \in Slippages, c \in PriceCalls :
           GetExecutionPrice(pd, sl, c)

SpecPrice == Init /\ [][NextPrice]_vars

-----------------------------------------------------------------------------
(* Rounds of trades: the same calls on snapshots that all resolve a price    *)
(* at 100 basis points, MaxRounds of them, with the clock standing still so  *)
(* that two trades can be opened and closed                                  *)

RoundSnapshots ==
    {Snapshot("0xpoolX", TableFlat), Snapshot("0xpoolY", TableUp), PricesOnly}

\* executeBuy, the clock at t during the call
RoundBuyAt(poolData, a, t) ==
    /\ steps < MaxRounds
    /\ now <= t
    /\ \E r \in {executeBuy(Ledger, now, poolData, a[1], a[2], a[3], t, t)} :
           /\ SetLedger(r.ledger)
           /\ now' = r.clock
           /\ result' = [op |-> "executeBuy", poolData |-> poolData,
                         amount |-> a[1], slippage |-> a[2], strategy |-> a[3],
                         threw |-> r.threw, value |-> r.value]
    /\ Step
    /\ UNCHANGED <<config, slopeHistory, arrivals, gaps, pending, phase>>

\* executeSell, the clock at t during the call
RoundSellAt(poolData, a, t) ==
    /\ steps < MaxRounds
    /\ now <= t
    /\ \E r \in {executeSell(Ledger, now, poolData, a[1], a[2], a[3], t, t)} :
           /\ SetLedger(r.ledger)
           /\ now' = r.clock
           /\ result' = [op |-> "executeSell", poolData |-> poolData,
                         amount |-> a[1], slippage |-> a[2], strategy |-> a[3],
                         threw |-> r.threw, value |-> r.value]
    /\ Step
    /\ UNCHANGED <<config, slopeHistory, arrivals, gaps, pending, phase>>

RoundBuy(poolData, a) == RoundBuyAt(poolData, a, now)

RoundSell(poolData, a) == RoundSellAt(poolData, a, now)

RoundReset ==
    /\ steps < MaxRounds
    /\ SetLedger(resetTrades)
    /\ result' = [op |-> "resetTrades", threw |-> FALSE, value |-> Null]
    /\ Step
    /\ UNCHANGED <<config, slopeHistory, now, arrivals, gaps, pending, phase>>

NextRounds ==
    \/ \E pd \in RoundSnapshots, a \in CallArgs : RoundBuy(pd, a)
    \/ \E pd \in RoundSnapshots, a \in CallArgs : RoundSell(pd, a)
    \/ \E i \in 1..Len(trades) : CalculatePnL(i)
    \/ GetPerformanceSummary
    \/ RoundReset

SpecRounds == Init /\ [][NextRounds]_vars

-----------------------------------------------------------------------------
(* Trades closed one after another: the calls of either strategy on two      *)
(* pools whose prices differ, MaxRounds of them, the clock advancing between *)
(* the calls, so that a trade is closed while the ledger has an entry closed *)
(* earlier, at another price and another time                                *)

ClosingSnapshots == {Snapshot("0xpoolX", TableFlat), Snapshot("0xpoolY", TableUp)}

NextClosing ==
    \/ \E pd \in ClosingSnapshots, a \in CallArgs, t \in now..MaxClock :
           RoundBuyAt(pd, a, t)
    \/ \E pd \in ClosingSnapshots, a \in CallArgs, t \in now..MaxClock :
           RoundSellAt(pd, a, t)
    \/ RoundReset

SpecClosing == Init /\ [][NextClosing]_vars

-----------------------------------------------------------------------------
(* The application: start() initializes the engine and subscribes            *)
(* handleMessage; every delivered message is one call of it, counted in      *)
(* steps as messageCount counts it.  The consumer emits 'message' and does   *)
(* not await the promise handleMessage returns: a handler suspended at its   *)
(* await is resumed later, possibly after further messages were handled.     *)

\* Four reads of Date.now() in a row, none earlier than the one before
LaterReads ==
    {x \in [1..4 -> 1..MaxClock] : \A i \in 1..3 : x[i] <= x[i + 1]}

\* start() up to the registration of handleMessage (lines 176-186)
Start(cfg) ==
    /\ config = Null
    /\ phase = "up"
    /\ InitializeStrategy(cfg)
    /\ UNCHANGED steps

\* The clock values executeStrategy reads after processPoolData has returned
\* r and left the clock at r.clock: none when it is not called, the two of
\* one call of executeBuy or executeSell under strategy A, the four of two
\* calls under strategy B, none earlier than the one before; a value that
\* is not read repeats the one before
ExecutionReads(cfg, r) ==
    IF r.threw \/ r.isNull \/ r.signal = "null"
    THEN {<<r.clock, r.clock, r.clock, r.clock>>}
    ELSE IF cfg[1].trading.strategy = "A"
    THEN {<<p[1], p[2], p[2], p[2]>> :
             p \in {q \in (r.clock..MaxClock) \X (r.clock..MaxClock) : q[1] <= q[2]}}
    ELSE {x \in [1..4 -> r.clock..MaxClock] : \A i \in 1..3 : x[i] <= x[i + 1]}

\* Variant: executeStrategy runs when the handler p is resumed
AfterAwaitExecutes(cfg, ledger, clock, p, reads) ==
    LET x == executeStrategy(cfg, ledger, clock, p.signal, p.poolData, reads)
    IN  [ledger |-> x.ledger, clock |-> x.clock]

\* What the suspended handler p does when it is resumed: it leaves the try
\* block and returns
AfterAwait(cfg, ledger, clock, p, reads) ==
    [ledger |-> ledger, clock |-> clock]

\* emitter.emit('message', msg) for one delivered message: handleMessage runs
\* up to its await or to its return.  decoded is the record decodeMessage
\* returns, Null when it throws.  With a signal the handler is suspended at
\* `await executeStrategy(...)`, executeStrategy having run to its end, and
\* joins pending.
HandleMessage(decoded) ==
    /\ config # Null
    /\ phase # "exited"
    /\ steps < MaxSteps
    /\ \E t \in now..MaxClock :
       \E p \in {DecodeAndProcess(config, slopeHistory, now, decoded, t, t)} :
       \E r \in {Dispatch(config, Ledger, p, reads) : reads \in ExecutionReads(config, p)} :
          /\ slopeHistory' = r.history
          /\ SetLedger(r.ledger)
          /\ now' = r.clock
          /\ result' = [op |-> "handleMessage", arg |-> decoded,
                        caught |-> r.caught, signal |-> r.signal]
          /\ pending' =
                 (IF r.signal = "null"
                  THEN pending
                  ELSE Append(pending,
                              [arg |-> decoded, signal |-> r.signal,
                               poolData |-> p.poolData]))
    /\ arrivals' = (IF decoded = Null THEN arrivals ELSE Observe(decoded))
    /\ gaps' = (IF decoded = Null THEN gaps ELSE ObserveGap(decoded))
    /\ Step
    /\ UNCHANGED <<config, phase>>

\* The oldest suspended handler is resumed: the promise of executeStrategy
\* was settled when the handler was suspended, and handlers are resumed in
\* the order of their suspension
Resume ==
    /\ pending # <<>>
    /\ phase # "exited"
    /\ \E r \in {AfterAwait(config, Ledger, now, Head(pending), <<now, now, now, now>>)} :
           /\ SetLedger(r.ledger)
           /\ now' = r.clock
    /\ pending' = Tail(pending)
    /\ result' = [op |-> "resume", arg |-> Head(pending).arg]
    /\ UNCHANGED <<config, slopeHistory, arrivals, gaps, steps, phase>>

\* logPerformanceSummary() (lines 140-154): the summary is taken from the
\* ledger and the clock is read for the uptime
logPerformanceSummary ==
    /\ \E t \in now..MaxClock : now' = t
    /\ result' = [op |-> "logPerformanceSummary",
                  threw |-> FALSE, value |-> getPerformanceSummary(Ledger)]
    /\ UNCHANGED <<config, slopeHistory, trades, openPosition, tradeCounter,
                   arrivals, gaps, steps, pending>>

\* The timer of line 194 fires: it is set once start() has initialised the
\* engine and begun to consume, and shutdown() clears it
LogPerformanceSummary ==
    /\ config # Null
    /\ phase = "up"
    /\ logPerformanceSummary
    /\ UNCHANGED phase

\* shutdown() up to its await (lines 159-166): called by the catch of
\* start(), which runs also when start() failed before the engine was
\* initialised, and by the handlers of SIGINT and SIGTERM, which start()
\* registers at its end and which run at every signal
Shutdown ==
    /\ phase = "up" \/ (phase = "shutdown" /\ config # Null)
    /\ logPerformanceSummary
    /\ phase' = "shutdown"

\* process.exit after shutdown() has returned (lines 201, 207, 213): the
\* handlers still suspended are never resumed
Exit ==
    /\ phase = "shutdown"
    /\ phase' = "exited"
    /\ result' = [op |-> "exit"]
    /\ UNCHANGED <<config, slopeHistory, trades, openPosition, tradeCounter, now,
                   arrivals, gaps, steps, pending>>

Next ==
    \/ \E cfg \in AppConfigs : Start(cfg)
    \/ \E m \in AppMessages : HandleMessage(m)
    \/ HandleMessage(Null)
    \/ Resume
    \/ LogPerformanceSummary
    \/ Shutdown
    \/ Exit

Spec == Init /\ [][Next]_vars

-----------------------------------------------------------------------------
(* executeStrategy alone: once start() has initialised the engine, signals   *)
(* are executed in turn on snapshots of two pools, MaxRounds of them, so     *)
(* that signals follow a BUY and a SELL                                      *)

\* executeStrategy(signal, poolData, slope, deltaSlope), its calls of
\* executeBuy or executeSell reading the clock
ExecuteStrategy(signal, poolData) ==
    /\ config # Null
    /\ steps < MaxRounds
    /\ \E reads \in {x \in LaterReads : now <= x[1]} :
       \E r \in {executeStrategy(config, Ledger, now, signal, poolData, reads)} :
           /\ SetLedger(r.ledger)
           /\ now' = r.clock
           /\ result' = [op |-> "executeStrategy", signal |-> signal,
                         poolData |-> poolData, caught |-> r.caught]
    /\ Step
    /\ UNCHANGED <<config, slopeHistory, arrivals, gaps, pending, phase>>

NextStrategy ==
    \/ \E cfg \in AppConfigs : Start(cfg)
    \/ \E signal \in {"BUY", "SELL"}, pd \in Snapshots : ExecuteStrategy(signal, pd)

SpecStrategy == Init /\ [][NextStrategy]_vars

-----------------------------------------------------------------------------
(* Claims about the strategy engine *)

\* The slopes of a history array, oldest first
SlopesOf(history) == [i \in 1..Len(history) |-> history[i].slope]

\* The last n elements of a sequence
LastN(seq, n) == SubSeq(seq, Len(seq) - n + 1, Len(seq))

Min(a, b) == IF a < b THEN a ELSE b

\* C1: every pool's slope history has at most 100 records, and its slopes are
\* exactly the most recent min(n, 100) resolved slopes of that pool, in
\* arrival order (n being the number of resolved slopes that arrived)
C1_HistoryIsLast100 ==
    \A p \in DOMAIN arrivals :
        LET history == HistoryOf(slopeHistory, p)
        IN  /\ Len(history) <= 100
            /\ SlopesOf(history) = LastN(arrivals[p], Min(Len(arrivals[p]), 100))

\* A 101st resolved slope has arrived for a pool and its oldest was evicted
C1_Witness ==
    \E p \in DOMAIN arrivals :
        /\ Len(arrivals[p]) > 100
        /\ Len(HistoryOf(slopeHistory, p)) = 100
        /\ arrivals[p][1] # arrivals[p][Len(arrivals[p]) - 99]

\* The last call was processPoolData and it returned a result tuple
Returned ==
    /\ result.op = "processPoolData"
    /\ ~result.out.threw
    /\ ~result.out.isNull

\* C2: a result with a resolved slope carries deltaSlope = null when it is the
\* pool's first resolved observation, and otherwise its slope minus the slope
\* of the pool's preceding resolved observation
C2_DeltaAgainstPrevious ==
    (Returned /\ result.out.slope # Null) =>
        LET a == arrivals[result.out.poolData.poolAddress]
            n == Len(a)
        IN  /\ n >= 1
            /\ a[n] = result.out.slope
            /\ IF n = 1
               THEN result.out.deltaSlope = Null
               ELSE result.out.deltaSlope = FracSub(a[n], a[n - 1])

\* A third observation of a pool whose three slopes differ from one another:
\* the deltaSlope returned is taken against the second and is neither 0 nor
\* the difference to the first
C2_Witness ==
    /\ Returned
    /\ result.out.slope # Null
    /\ LET a == arrivals[result.out.poolData.poolAddress]
       IN  /\ Len(a) = 3
           /\ a[3] # a[2]
           /\ a[2] # a[1]
           /\ a[3] # a[1]
           /\ result.out.deltaSlope = FracSub(a[3], a[2])
           /\ result.out.deltaSlope # FracSub(a[3], a[1])
           /\ result.out.deltaSlope # FracZero

\* The first observation of a pool, after observations of another pool
C2_FirstReached ==
    /\ Returned
    /\ result.out.slope # Null
    /\ result.out.deltaSlope = Null
    /\ result.out.poolData.poolAddress = "0xpoolY"
    /\ Len(arrivals["0xpoolY"]) = 1
    /\ Len(arrivals["0xpoolX"]) = 2

\* C3: with slope and deltaSlope both resolved, the signal is BUY exactly when
\* deltaSlope < 0 and slope < threshold; otherwise SELL exactly when
\* deltaSlope > 0 or slope > threshold; otherwise null
C3_SignalRules ==
    (Returned /\ result.out.slope # Null /\ result.out.deltaSlope # Null) =>
        LET slope == result.out.slope
            deltaSlope == result.out.deltaSlope
            threshold == config[1].trading.slopeThreshold
            buy == FracLt(deltaSlope, FracZero) /\ FracLt(slope, threshold)
            sell == FracLt(FracZero, deltaSlope) \/ FracLt(threshold, slope)
        IN  /\ (result.out.signal = "BUY") <=> buy
            /\ (result.out.signal = "SELL") <=> (~buy /\ sell)
            /\ (result.out.signal = "null") <=> (~buy /\ ~sell)

\* A positive deltaSlope gives SELL although the slope is below the threshold
C3_Witness ==
    /\ Returned
    /\ result.out.slope # Null
    /\ result.out.deltaSlope # Null
    /\ FracLt(FracZero, result.out.deltaSlope)
    /\ FracLt(result.out.slope, config[1].trading.slopeThreshold)
    /\ result.out.signal = "SELL"

\* The boundary: slope = threshold and deltaSlope = 0 give no signal
C3_BoundaryReached ==
    /\ config # Null
    /\ Returned
    /\ result.out.slope = config[1].trading.slopeThreshold
    /\ result.out.deltaSlope = FracZero
    /\ result.out.signal = "null"

\* C4: a call whose slope is unresolved, or whose pool had no earlier resolved
\* slope, returns (it does not throw, whatever the configuration, even none)
\* a result whose signal is null; with the slope unresolved, deltaSlope is
\* null too
C4_NullInNullOut ==
    (result.op = "processPoolData" /\ PoolOf(result.arg) # Null) =>
        LET o == Observed(result.arg)
            first == o # Null /\ Len(arrivals[o.poolAddress]) = 1
        IN  /\ (o = Null) =>
                  /\ Returned
                  /\ result.out.slope = Null
                  /\ result.out.deltaSlope = Null
                  /\ result.out.signal = "null"
            /\ first =>
                  /\ Returned
                  /\ result.out.deltaSlope = Null
                  /\ result.out.signal = "null"
            /\ (Returned /\ (result.out.slope = Null \/ result.out.deltaSlope = Null)) =>
                  result.out.signal = "null"

\* With no configuration at all, a pool's first resolved slope is returned
\* with deltaSlope = null and no signal
C4_Witness ==
    /\ config = Null
    /\ Returned
    /\ result.out.slope # Null
    /\ result.out.deltaSlope = Null
    /\ result.out.signal = "null"

-----------------------------------------------------------------------------
(* Claims about the trade simulator.  In the step formulas the unprimed      *)
(* variables are the state before the call and result' tells which call the  *)
(* step was and what it returned.                                            *)

\* The execution price of the call recorded in r: Null or <<price>>
PriceOf(r) == getExecutionPrice(r.poolData, r.amount, r.slippage, r.op)

\* The call recorded in r is an executeBuy / executeSell that returned a trade
Bought(r) == r.op = "executeBuy" /\ ~r.threw

Sold(r) == r.op = "executeSell" /\ ~r.threw /\ r.value # Null

\* C5: a successful executeBuy appends exactly one trade to the end of the
\* ledger, open (type BUY, no exit price or timestamp, entryPrice the resolved
\* price, amount the requested amount), returns it, makes it the open
\* position, and leaves every earlier entry, an open one included, as it was
C5_BuyAppendsOpenTrade ==
    [][Bought(result') =>
          /\ Len(trades') = Len(trades) + 1
          /\ SubSeq(trades', 1, Len(trades)) = trades
          /\ trades'[Len(trades')] = result'.value
          /\ result'.value.type = "BUY"
          /\ result'.value.exitPrice = Null
          /\ result'.value.exitTimestamp = Null
          /\ Some(result'.value.entryPrice) = PriceOf(result')
          /\ result'.value.amount = result'.amount
          /\ openPosition' = Len(trades')]_vars

\* A buy has succeeded while the trade before it was still open
C5_Witness ==
    /\ Bought(result)
    /\ Len(trades) >= 2
    /\ trades[Len(trades) - 1].exitPrice = Null
    /\ openPosition = Len(trades)

\* C6: executeSell with no open position returns null without throwing, and
\* leaves the ledger, the open position and the trade counter as they were,
\* also when no execution price can be resolved
C6_SellWithoutPosition ==
    [][(result'.op = "executeSell" /\ openPosition = 0) =>
          /\ ~result'.threw
          /\ result'.value = Null
          /\ UNCHANGED <<trades, openPosition, tradeCounter>>]_vars

\* executeSell has returned null on a snapshot with no resolvable price
C6_Witness ==
    /\ result.op = "executeSell"
    /\ ~result.threw
    /\ result.value = Null
    /\ ~Truthy(PriceOf(result))
    /\ openPosition = 0

\* C7: a successful executeSell sets exitPrice and exitTimestamp on the entry
\* that was the open position, changes nothing else in the ledger, clears the
\* open position, and returns a trade with that entry's id, entryPrice,
\* amount and exitPrice
C7_SellClosesInPlace ==
    [][Sold(result') =>
          /\ openPosition \in 1..Len(trades)
          /\ Len(trades') = Len(trades)
          /\ \A j \in 1..Len(trades) : j # openPosition => trades'[j] = trades[j]
          /\ trades'[openPosition] =
                 [trades[openPosition] EXCEPT
                     !.exitPrice = PriceOf(result'),
                     !.exitTimestamp = trades'[openPosition].exitTimestamp]
          /\ Truthy(trades'[openPosition].exitPrice)
          /\ trades'[openPosition].exitTimestamp # Null
          /\ openPosition' = 0
          /\ result'.value.id = trades'[openPosition].id
          /\ result'.value.entryPrice = trades'[openPosition].entryPrice
          /\ result'.value.amount = trades'[openPosition].amount
          /\ result'.value.exitPrice = trades'[openPosition].exitPrice]_vars

\* A sell has closed the last of two entries, the first still without exit
C7_Witness ==
    /\ Sold(result)
    /\ Len(trades) >= 2
    /\ trades[Len(trades)].exitPrice # Null
    /\ trades[Len(trades)].id = result.value.id
    /\ trades[1].exitPrice = Null
    /\ openPosition = 0

\* C8: when no execution price can be resolved, executeBuy throws, and so
\* does executeSell when there is an open position; a call that throws leaves
\* the ledger, the open position and the counter as they were, so the open
\* trade is still open and without exit price
C8_FailureExecutesNothing ==
    [][/\ (result'.op = "executeBuy" /\ ~Truthy(PriceOf(result'))) => result'.threw
       /\ (result'.op = "executeSell" /\ ~Truthy(PriceOf(result')) /\ openPosition # 0)
             => result'.threw
       /\ (result'.op \in {"executeBuy", "executeSell"} /\ result'.threw) =>
             /\ ~Truthy(PriceOf(result'))
             /\ UNCHANGED <<trades, openPosition, tradeCounter>>
             /\ (result'.op = "executeSell" =>
                    /\ openPosition' # 0
                    /\ trades'[openPosition'].exitPrice = Null)]_vars

\* executeSell has thrown and the open trade is still open
C8_Witness ==
    /\ result.op = "executeSell"
    /\ result.threw
    /\ openPosition # 0
    /\ trades[openPosition].exitPrice = Null

\* C9: short of resetTrades, an entry with an exit price keeps its exitPrice
\* and exitTimestamp in the next state and is not the open position there;
\* the open position never has an exit price
C9_ClosedStaysClosed ==
    [][/\ (openPosition' # 0 => trades'[openPosition'].exitPrice = Null)
       /\ (result'.op # "resetTrades" =>
             \A i \in 1..Len(trades) :
                 trades[i].exitPrice # Null =>
                     /\ i <= Len(trades')
                     /\ trades'[i].exitPrice = trades[i].exitPrice
                     /\ trades'[i].exitTimestamp = trades[i].exitTimestamp
                     /\ openPosition' # i)]_vars

\* A trade was closed, a later buy has opened another one and a later sell
\* has closed that one, at another price and a later time: the first has
\* the exit price and the exit timestamp it was closed with
C9_Witness ==
    /\ Sold(result)
    /\ Len(trades) = 2
    /\ openPosition = 0
    /\ trades[1].exitPrice = Some(100)
    /\ trades[1].exitTimestamp = Some(1)
    /\ trades[2].exitPrice = Some(105)
    /\ trades[2].exitTimestamp = Some(2)

\* A trade was closed and a later buy has opened another one
C9_BoughtReached ==
    /\ Bought(result)
    /\ Len(trades) >= 2
    /\ trades[1].exitPrice # Null
    /\ openPosition = Len(trades)

\* The identity of a ledger entry: the fields that are set when it is opened
Opening(t) ==
    <<t.id, t.type, t.amount, t.entryPrice, t.entryTimestamp, t.poolAddress>>

\* C10: short of resetTrades, no call shortens or reorders the ledger or
\* changes the id, type, amount, entryPrice, entryTimestamp or poolAddress of
\* an entry; the length grows only by a successful executeBuy, and by one
C10_AppendOnly ==
    [][result'.op # "resetTrades" =>
          /\ Len(trades') >= Len(trades)
          /\ \A i \in 1..Len(trades) : Opening(trades'[i]) = Opening(trades[i])
          /\ Len(trades') # Len(trades) => Bought(result')
          /\ Bought(result') => Len(trades') = Len(trades) + 1]_vars

\* The summary has been read from a ledger of two entries, one of them closed
C10_Witness ==
    /\ result.op = "getPerformanceSummary"
    /\ Len(trades) >= 2
    /\ result.value.totalTrades = Len(trades)
    /\ \E i \in 1..Len(trades) : trades[i].exitPrice # Null

\* The entries without exit price that are not the open position
Orphans(trs, open) == {i \in 1..Len(trs) : trs[i].exitPrice = Null /\ i # open}

\* The ledger of the next state
LedgerNext ==
    [trades |-> trades', openPosition |-> openPosition', tradeCounter |-> tradeCounter']

\* C11: a successful executeBuy made while an earlier trade is the open
\* position leaves that trade in the ledger without exit price and no longer
\* the open position; short of resetTrades such an entry stays as it is, an
\* executeSell included, and the summary counts it in totalTrades and not in
\* closedTrades
C11_OrphanStaysOpen ==
    [][/\ (Bought(result') /\ openPosition # 0) =>
              openPosition \in Orphans(trades', openPosition')
       /\ (result'.op # "resetTrades" =>
              \A i \in Orphans(trades, openPosition) :
                  /\ i \in Orphans(trades', openPosition')
                  /\ trades'[i] = trades[i])
       /\ LET after == getPerformanceSummary(LedgerNext)
          IN  after.totalTrades - after.closedTrades
                = Cardinality(Orphans(trades', openPosition'))
                  + (IF openPosition' # 0 THEN 1 ELSE 0)]_vars

\* A sell has closed a later trade and an earlier one is left without exit
C11_Witness ==
    /\ Sold(result)
    /\ \E i \in Orphans(trades, openPosition), j \in 1..Len(trades) :
           /\ i < j
           /\ trades[j].id = result.value.id
           /\ trades[j].exitPrice # Null

\* C12: with an open position and a resolvable price, executeSell closes the
\* open trade whatever the pool of its snapshot; the exit price is the one
\* resolved from that snapshot and the closed trade keeps its poolAddress
C12_GlobalSlot ==
    [][(result'.op = "executeSell" /\ openPosition # 0 /\ Truthy(PriceOf(result'))) =>
          /\ Sold(result')
          /\ openPosition' = 0
          /\ trades'[openPosition].exitPrice = PriceOf(result')
          /\ trades'[openPosition].poolAddress = trades[openPosition].poolAddress
          /\ result'.value.poolAddress = trades[openPosition].poolAddress]_vars

\* A trade opened on pool X has been closed by a snapshot of pool Y
C12_Witness ==
    /\ Sold(result)
    /\ result.poolData.poolAddress = "0xpoolY"
    /\ \E i \in 1..Len(trades) :
           /\ trades[i].id = result.value.id
           /\ trades[i].poolAddress = "0xpoolX"
           /\ trades[i].exitPrice = PriceOf(result)

\* C13: executeBuy on the empty ledger followed by executeSell leaves one
\* trade, closed, and calculatePnL of it, and of the trade returned, is
\* (p2 - p1) * a with p1, p2 the prices the two calls resolved and a the
\* amount given to executeBuy
C13_RoundTrip ==
    [][(Bought(result) /\ trades = <<result.value>> /\ Sold(result')) =>
          /\ Len(trades') = 1
          /\ Truthy(trades'[1].exitPrice)
          /\ calculatePnL(trades'[1]) =
                 FracMul(<<PriceOf(result')[1] - PriceOf(result)[1], 1>>, result.amount)
          /\ calculatePnL(result'.value) = calculatePnL(trades'[1])]_vars

\* Bought 1/2 at 100, sold with amount 1 at 105: the pnl is 5/2
C13_Witness ==
    /\ Sold(result)
    /\ Len(trades) = 1
    /\ trades[1].amount = <<1, 2>>
    /\ result.amount = <<1, 1>>
    /\ trades[1].entryPrice = 100
    /\ trades[1].exitPrice = Some(105)
    /\ calculatePnL(trades[1]) = <<5, 2>>

\* C14: the summary's totalTrades is the number of entries, closedTrades the
\* number of entries with an exit price, openPosition 1 or 0 as the open
\* position is set or not; the call returns that summary and changes nothing
C14_SummaryCounts ==
    [][LET after == getPerformanceSummary(LedgerNext)
       IN  /\ after.totalTrades = Len(trades')
           /\ after.closedTrades =
                  Cardinality({i \in 1..Len(trades') : trades'[i].exitPrice # Null})
           /\ after.openPosition = (IF openPosition' # 0 THEN 1 ELSE 0)
           /\ (result'.op = "getPerformanceSummary" =>
                  /\ result'.value = after
                  /\ result'.value.trades = trades
                  /\ UNCHANGED <<config, slopeHistory, trades, openPosition,
                                 tradeCounter, now>>)]_vars

\* The summary of a ledger with one orphaned and one closed trade
C14_Witness ==
    /\ result.op = "getPerformanceSummary"
    /\ result.value.totalTrades = 2
    /\ result.value.closedTrades = 1
    /\ result.value.openPosition = 0
    /\ Orphans(trades, openPosition) # {}

-----------------------------------------------------------------------------
(* Claims about the summary, checked on rounds of trades *)

\* The indices of the entries with an exit price
ClosedIndices == {i \in 1..Len(trades) : trades[i].exitPrice # Null}

\* (exitPrice - entryPrice) * amount of the closed entry i
PnLAt(i) ==
    FracMul(<<trades[i].exitPrice[1] - trades[i].entryPrice, 1>>, trades[i].amount)

RECURSIVE SumPnLOver(_)
SumPnLOver(S) ==
    IF S = {}
    THEN FracZero
    ELSE LET i == CHOOSE j \in S : TRUE
         IN  FracAdd(PnLAt(i), SumPnLOver(S \ {i}))

\* C15: totalPnL of the summary is the sum of (exitPrice - entryPrice) * amount
\* over the entries with an exit price, the others adding nothing
C15_TotalPnL ==
    /\ getPerformanceSummary(Ledger).totalPnL = SumPnLOver(ClosedIndices)
    /\ (result.op = "getPerformanceSummary" =>
           result.value.totalPnL = SumPnLOver(ClosedIndices))

\* The summary of two closed trades with pnl +5 and -2 gives totalPnL 3
C15_Witness ==
    /\ result.op = "getPerformanceSummary"
    /\ ClosedIndices = {1, 2}
    /\ {PnLAt(1), PnLAt(2)} = {<<5, 1>>, <<-2, 1>>}
    /\ result.value.totalPnL = <<3, 1>>

\* The closed entries whose pnl is strictly positive
WinIndices == {i \in ClosedIndices : FracLt(FracZero, PnLAt(i))}

\* C16: winRate of the summary is the number of closed entries with pnl > 0
\* divided by the number of closed entries, and 0 when none is closed
C16_WinRate ==
    /\ getPerformanceSummary(Ledger).winRate =
           (IF ClosedIndices = {}
            THEN FracZero
            ELSE Frac(Cardinality(WinIndices), Cardinality(ClosedIndices)))
    /\ (result.op = "getPerformanceSummary" =>
           result.value.winRate = getPerformanceSummary(Ledger).winRate)

\* The summary of two closed trades, one with pnl 0 and one with pnl > 0,
\* gives winRate 1/2
C16_Witness ==
    /\ result.op = "getPerformanceSummary"
    /\ ClosedIndices = {1, 2}
    /\ \E i \in ClosedIndices : PnLAt(i) = FracZero
    /\ Cardinality(WinIndices) = 1
    /\ result.value.winRate = <<1, 2>>

-----------------------------------------------------------------------------
(* Claims about calculateSlope *)

\* (p100 - p10) / p10 of two reference prices, each Null or <<price>>; Null
\* when one is missing or zero
SlopeOf(p10, p100) ==
    IF p10 = Null \/ p100 = Null
    THEN Null
    ELSE IF p10[1] = 0 \/ p100[1] = 0
    THEN Null
    ELSE Frac(p100[1] - p10[1], p10[1])

\* C17: on a price map with entries at 10 and at 100 basis points
\* calculateSlope returns (p100 - p10) / p10 of these entries, and null when
\* the entry at 10 is 0 or either entry is 0; on the empty map, where no
\* reference is resolved, it returns null
C17_SlopeFormula ==
    result.op = "calculateSlope" =>
        /\ ({10, 100} \subseteq DOMAIN result.prices =>
               result.value = SlopeOf(Some(result.prices[10]), Some(result.prices[100])))
        /\ (DOMAIN result.prices = {} => result.value = Null)
        /\ ((10 \in DOMAIN result.prices /\ result.prices[10] = 0) =>
               result.value = Null)

\* Prices 100 at 10 and 99 at 100 basis points give the slope -1/100
C17_Witness ==
    /\ result.op = "calculateSlope"
    /\ {10, 100} \subseteq DOMAIN result.prices
    /\ result.prices[10] = 100
    /\ result.prices[100] = 99
    /\ result.value = <<-1, 100>>

\* The price at 10 basis points is 0, the one at 100 is not: no slope
C17_ZeroReached ==
    /\ result.op = "calculateSlope"
    /\ {10, 100} \subseteq DOMAIN result.prices
    /\ result.prices[10] = 0
    /\ result.prices[100] = 99
    /\ result.value = Null

\* The key of prices nearest to ref, the smaller of two equally distant ones
NearestKey(prices, ref) ==
    CHOOSE k \in DOMAIN prices :
        \A j \in DOMAIN prices :
            \/ Abs(k - ref) < Abs(j - ref)
            \/ (Abs(k - ref) = Abs(j - ref) /\ k <= j)

\* The price used for ref: the entry at ref, or else the one at the nearest key
NearestPrice(prices, ref) ==
    IF DOMAIN prices = {}
    THEN Null
    ELSE IF ref \in DOMAIN prices
    THEN Some(prices[ref])
    ELSE Some(prices[NearestKey(prices, ref)])

\* C18: when the price map has no entry at 10 or none at 100, calculateSlope
\* uses for that reference the entry at the key nearest to it, the smaller
\* key when two are equally distant, each reference on its own
C18_NearestKey ==
    (result.op = "calculateSlope" /\ ~({10, 100} \subseteq DOMAIN result.prices)) =>
        result.value = SlopeOf(NearestPrice(result.prices, 10),
                               NearestPrice(result.prices, 100))

\* Neither reference has an entry and each has two equally distant keys with
\* different prices: the slope is that of the entries at 5 and at 55
C18_Witness ==
    /\ result.op = "calculateSlope"
    /\ DOMAIN result.prices = {5, 15, 55, 145}
    /\ result.prices[5] = 100
    /\ result.prices[15] = 99
    /\ result.prices[55] = 99
    /\ result.prices[145] = 100
    /\ result.value = <<-1, 100>>

-----------------------------------------------------------------------------
(* Claims about getExecutionPrice *)

\* The integers nearest to q * 10000: one, or the two neighbours of a
\* product that is an integer and a half, where the double product decides
TargetBps(q) ==
    {r \in 0..200 :
        /\ (2 * r - 1) * q[2] <= 20000 * q[1]
        /\ 20000 * q[1] <= (2 * r + 1) * q[2]}

\* The basis points the call of result was resolved at
TargetBp(q) == RoundProduct(q, 10000)

\* The index of the bucket whose price is taken for target: the first with
\* exactly that value, or else the first of those at minimal distance
ChosenIndex(buckets, target) ==
    LET exact == {i \in 1..Len(buckets) : buckets[i].SlippageBasisPoints = target}
        near == {i \in 1..Len(buckets) :
                    \A j \in 1..Len(buckets) :
                        Abs(buckets[i].SlippageBasisPoints - target)
                            <= Abs(buckets[j].SlippageBasisPoints - target)}
        from == IF exact # {} THEN exact ELSE near
    IN  CHOOSE i \in from : \A j \in from : i <= j

\* The price a bucket gives: none when it is 0 or missing
PriceIn(b) == IF b.Price = Null \/ b.Price = Some(0) THEN Null ELSE b.Price

\* C19: on a non-empty bucket table getExecutionPrice returns the price of
\* the first bucket at round(slippage * 10000) basis points, an integer
\* nearest to the product, or when there is none the price of the first
\* bucket at minimal distance from it; the amount and the direction make no
\* difference
C19_ExecutionPrice ==
    (result.op = "getExecutionPrice" /\ result.poolData.slippageBuckets # <<>>) =>
        /\ \E target \in TargetBps(result.slippage) :
               result.value =
                   PriceIn(result.poolData.slippageBuckets[
                               ChosenIndex(result.poolData.slippageBuckets, target)])
        /\ \A c \in PriceCalls :
               getExecutionPrice(result.poolData, c[1], result.slippage, c[2])
                   = result.value

\* 50 basis points asked of the table 90, 10, 50-less: both are 40 away and
\* the earlier bucket, at 90, gives the price
C19_Witness ==
    /\ result.op = "getExecutionPrice"
    /\ result.slippage = <<1, 200>>
    /\ result.direction = "SELL"
    /\ result.poolData.slippageBuckets = <<Bucket(90, Some(98)), Bucket(10, Some(99))>>
    /\ result.value = Some(98)

\* 7.5 basis points are rounded up to 8 and resolved at the bucket at 10
C19_RoundingReached ==
    /\ result.op = "getExecutionPrice"
    /\ result.slippage = <<3, 4000>>
    /\ TargetBp(result.slippage) = 8
    /\ result.poolData.slippageBuckets = <<Bucket(100, Some(98)), Bucket(10, Some(99))>>
    /\ result.value = Some(99)

\* 1.5 basis points: 0.00015 * 10000 is 1.4999999999999998 on doubles and
\* is rounded to 1, the bucket at 1 gives the price
C19_HalfBelowReached ==
    /\ result.op = "getExecutionPrice"
    /\ result.slippage = <<3, 20000>>
    /\ TargetBp(result.slippage) = 1
    /\ result.poolData.slippageBuckets = TableLow
    /\ result.value = Some(11)

\* 14.5 basis points are resolved at 14, by the second bucket of the table
C19_HalfMidReached ==
    /\ result.op = "getExecutionPrice"
    /\ result.slippage = <<29, 20000>>
    /\ result.poolData.slippageBuckets = TableMid
    /\ result.value = Some(140)

\* Without buckets the prices map is read at key 1 for 1.5 basis points
C19_HalfPricesReached ==
    /\ result.op = "getExecutionPrice"
    /\ result.slippage = <<3, 20000>>
    /\ result.poolData = PricesLow
    /\ result.value = Some(11)

-----------------------------------------------------------------------------
(* Claims about the token filter, checked on the application *)

\* The spellings of the two supported addresses among the inputs
UsdtSpellings == {USDT_ADDRESS, USDT_CHECKSUM, USDT_UPPER}
WethSpellings == {WETH_ADDRESS, WETH_CHECKSUM, WETH_0X_UPPER}
AllowSet == UsdtSpellings \cup WethSpellings

\* The record m has a token outside the allow-set
Filtered(m) == m # Null /\ (m.addressA \notin AllowSet \/ m.addressB \notin AllowSet)

\* C20: for a record with token A or token B outside {USDT, WETH}
\* extractPoolData returns null, and the handling of the record, which is
\* processPoolData and nothing after it, gives no signal and leaves the slope
\* history of every pool and the ledger as they were
C20_FilteredRecordChangesNothing ==
    [][(result'.op = "handleMessage" /\ Filtered(result'.arg)) =>
          /\ extractPoolData(result'.arg, now') = Null
          /\ processPoolData(config, slopeHistory, result'.arg, now', now').isNull
          /\ result'.signal = "null"
          /\ ~result'.caught
          /\ UNCHANGED <<slopeHistory, trades, openPosition, tradeCounter>>]_vars

\* A DAI/USDT record, whose token B is in the allow-set and whose token A
\* is not, has been handled while its pool has a history and a trade is
\* open
C20_Witness ==
    /\ result.op = "handleMessage"
    /\ Filtered(result.arg)
    /\ result.arg.addressA = DAI_ADDRESS
    /\ result.arg.addressB = USDT_ADDRESS
    /\ result.arg.poolAddress = Some("0xpoolX")
    /\ Len(HistoryOf(slopeHistory, "0xpoolX")) = 2
    /\ openPosition # 0

\* A WETH/DAI record, whose token A is in the allow-set and whose token B
\* is not, has been handled while its pool has a history and a trade is
\* open
C20_TokenBReached ==
    /\ result.op = "handleMessage"
    /\ Filtered(result.arg)
    /\ result.arg.addressA = WETH_ADDRESS
    /\ result.arg.addressB = DAI_ADDRESS
    /\ result.arg.poolAddress = Some("0xpoolX")
    /\ Len(HistoryOf(slopeHistory, "0xpoolX")) = 2
    /\ openPosition # 0

-----------------------------------------------------------------------------
(* Claims about the direction of a snapshot *)

\* The prices object of a bucket table: for each basis-point value that has
\* a bucket with a price other than 0, the price of the last such bucket
PricesFrom(buckets) ==
    LET priced == {i \in 1..Len(buckets) :
                      buckets[i].Price # Null /\ buckets[i].Price # Some(0)}
        last(bp) == CHOOSE i \in priced :
                        /\ buckets[i].SlippageBasisPoints = bp
                        /\ \A j \in priced :
                               buckets[j].SlippageBasisPoints = bp => j <= i
    IN  [bp \in {buckets[i].SlippageBasisPoints : i \in priced} |->
            buckets[last(bp)].Price[1]]

\* C21: the snapshot of a record that passes the filter has direction BtoA
\* and the B-to-A table exactly when token A is USDT and token B is WETH, and
\* direction AtoB and the A-to-B table for every other pairing; its price map
\* is built from the table stored as slippageBuckets
C21_Direction ==
    Returned =>
        LET m == result.arg
            pd == result.out.poolData
            reversed == m.addressA \in UsdtSpellings /\ m.addressB \in WethSpellings
        IN  /\ pd.direction = (IF reversed THEN "BtoA" ELSE "AtoB")
            /\ pd.slippageBuckets = (IF reversed THEN m.btoAPrices ELSE m.atoBPrices)
            /\ pd.prices = PricesFrom(pd.slippageBuckets)

\* A USDT/WETH record whose two tables differ: the slope is that of the
\* B-to-A table
C21_Witness ==
    /\ Returned
    /\ result.arg.addressA = USDT_CHECKSUM
    /\ result.arg.addressB = WETH_CHECKSUM
    /\ result.arg.atoBPrices # result.arg.btoAPrices
    /\ result.out.poolData.direction = "BtoA"
    /\ result.out.poolData.slippageBuckets = result.arg.btoAPrices
    /\ result.out.slope = calculateSlope([prices |-> PricesFrom(result.arg.btoAPrices)])
    /\ result.out.slope # calculateSlope([prices |-> PricesFrom(result.arg.atoBPrices)])

\* A WETH/WETH record is read from its A-to-B table
C21_SamePairReached ==
    /\ Returned
    /\ result.arg.addressA = WETH_ADDRESS
    /\ result.arg.addressB = WETH_ADDRESS
    /\ result.out.poolData.direction = "AtoB"
    /\ result.out.poolData.slippageBuckets = result.arg.atoBPrices

\* A record spelled in upper case, "0X" included, with an empty pool address
\* and a time of U+00E9 before "12": it passes the filter as USDT/WETH, its
\* pool is 'unknown', its timestamp is NaN, as U+00E9 is neither white space
\* nor a digit, and its history record has a clock value
C21_UpperCaseReached ==
    /\ Returned
    /\ result.arg.addressA = USDT_UPPER
    /\ result.arg.addressB = WETH_0X_UPPER
    /\ result.arg.poolAddress = Some("")
    /\ result.arg.time = StringTime(TimeAccented)
    /\ result.out.poolData.direction = "BtoA"
    /\ result.out.poolData.poolAddress = "unknown"
    /\ result.out.poolData.timestamp = NaN
    /\ slopeHistory["unknown"][Len(slopeHistory["unknown"])].timestamp \in 1..MaxClock

\* The time "12px" after white space of five kinds is read as 12
C21_ParsedTimeReached ==
    /\ Returned
    /\ result.arg.time = StringTime(TimeSpaced)
    /\ result.out.poolData.timestamp = 12
    /\ slopeHistory["0xpoolY"][Len(slopeHistory["0xpoolY"])].timestamp = 12

\* A time object without low and high leaves the clock value, and so does
\* the number 0; the empty address is not supported
C21_OtherTimeReached ==
    /\ Returned
    /\ result.arg.time = OtherTime
    /\ result.arg.addressB = WETH_CHECKSUM
    /\ result.out.poolData.direction = "BtoA"
    /\ result.out.poolData.timestamp = now
    /\ TimestampOf(NumberTime(0), now) = now
    /\ ~isSupportedToken(<<>>)


-----------------------------------------------------------------------------
(* Claims about the application *)

\* The step is the handling of a message
Handled == result'.op = "handleMessage"

\* The handling of the step's message failed: decodeMessage threw, no
\* snapshot was extracted, or executeBuy or executeSell threw
Failed ==
    /\ Handled
    /\ \/ result'.caught
       \/ result'.arg = Null
       \/ PoolOf(result'.arg) = Null

\* The slope history after the step's message against the one before it: as
\* it was when nothing was decoded, the record is filtered or its slope is
\* unresolved; otherwise the history of the record's pool has the records it
\* had and after them one of the record's slope, and the history of every
\* other pool is as it was
HistoryAdvanced ==
    IF result'.arg = Null \/ Observed(result'.arg) = Null
    THEN UNCHANGED slopeHistory
    ELSE LET o == Observed(result'.arg)
             before == HistoryOf(slopeHistory, o.poolAddress)
         IN  /\ DOMAIN slopeHistory' = DOMAIN slopeHistory \cup {o.poolAddress}
             /\ \A p \in DOMAIN slopeHistory \ {o.poolAddress} :
                    slopeHistory'[p] = slopeHistory[p]
             /\ Len(slopeHistory'[o.poolAddress]) = Len(before) + 1
             /\ SubSeq(slopeHistory'[o.poolAddress], 1, Len(before)) = before
             /\ slopeHistory'[o.poolAddress][Len(before) + 1].slope = o.slope

\* The execution price of the snapshot of record m at slippage sl
PriceFor(m, sl) == getExecutionPrice(extractPoolData(m, 1)[1], <<1, 1>>, sl, "BUY")

\* C22: a message whose handling fails leaves the ledger, the configuration
\* and the run of the application as they were, and the slope history with
\* at most its own resolved slope appended to its own pool (unchanged when
\* nothing was decoded or extracted); the failure is caught, and it is one
\* of executeBuy or executeSell only when the record gave a signal and no
\* execution price resolves.  The next message is handled on that history
\* and ledger.
C22_FaultIsolation ==
    [][Failed =>
          /\ UNCHANGED <<trades, openPosition, tradeCounter, config, phase>>
          /\ HistoryAdvanced
          /\ (result'.caught /\ result'.arg # Null) =>
                 LET tr == config[1].trading
                     sl == IF tr.strategy = "B" THEN tr.slippageThresholdB
                                                ELSE tr.slippageThresholdA
                 IN  /\ result'.signal \in {"BUY", "SELL"}
                     /\ ~Truthy(PriceFor(result'.arg, sl))]_vars

\* The second record of pool X gave BUY at slope -1/200 and no price was
\* resolved; the third record gave BUY again and its trade is the only one
\* in the ledger
C22_Witness ==
    /\ result.op = "handleMessage"
    /\ result.signal = "BUY"
    /\ ~result.caught
    /\ config[1].trading.strategy = "A"
    /\ "0xpoolX" \in DOMAIN slopeHistory
    /\ Len(slopeHistory["0xpoolX"]) = 3
    /\ slopeHistory["0xpoolX"][2].slope = <<-1, 200>>
    /\ slopeHistory["0xpoolX"][1].slope = FracZero
    /\ Len(trades) = 1
    /\ openPosition = 1

\* executeSell has thrown inside a message's handling and the trade opened
\* before is still the open position
C22_SellFailureReached ==
    /\ result.op = "handleMessage"
    /\ result.signal = "SELL"
    /\ result.caught
    /\ Len(trades) = 1
    /\ openPosition = 1
    /\ trades[1].exitPrice = Null

\* The signal the rules of generateSignal give record m against the resolved
\* slopes that arrived before it, those of the messages whose handlers are
\* still suspended among them
SignalDue(m) ==
    IF m = Null \/ Observed(m) = Null
    THEN "null"
    ELSE LET o == Observed(m)
             before == arrivals[o.poolAddress]
         IN  IF before = <<>>
             THEN "null"
             ELSE LET deltaSlope == FracSub(o.slope, before[Len(before)])
                      threshold == config[1].trading.slopeThreshold
                  IN  IF FracLt(deltaSlope, FracZero) /\ FracLt(o.slope, threshold)
                      THEN "BUY"
                      ELSE IF FracLt(FracZero, deltaSlope) \/ FracLt(threshold, o.slope)
                      THEN "SELL"
                      ELSE "null"

\* C23: a handler that is resumed reads and writes nothing of the slope
\* history and the ledger, and the handling of a message emitted while
\* earlier handlers are suspended is complete in its own step: its signal is
\* the one due against every slope that arrived before it, its slope is in
\* the history, and the trades its signal calls for are opened or closed in
\* the ledger; nothing of an earlier message's handling is still to come
C23_NoInterleaving ==
    [][/\ (result'.op = "resume" =>
              UNCHANGED <<config, slopeHistory, trades, openPosition, tradeCounter>>)
       /\ ((Handled /\ pending # <<>>) =>
              /\ result'.signal = SignalDue(result'.arg)
              /\ HistoryAdvanced
              /\ (result'.signal = "null" \/ result'.caught) =>
                     UNCHANGED <<trades, openPosition, tradeCounter>>
              /\ (result'.signal = "BUY" /\ ~result'.caught) =>
                     /\ Len(trades') =
                            Len(trades) + (IF config[1].trading.strategy = "B" THEN 2 ELSE 1)
                     /\ SubSeq(trades', 1, Len(trades)) = trades
                     /\ openPosition' = Len(trades')
                     /\ \A i \in (Len(trades) + 1)..Len(trades') :
                            /\ trades'[i].exitPrice = Null
                            /\ trades'[i].poolAddress = PoolOf(result'.arg)[1]
              /\ (result'.signal = "SELL" /\ ~result'.caught) =>
                     /\ Len(trades') = Len(trades)
                     /\ openPosition' = 0
                     /\ \A i \in 1..Len(trades) :
                            IF i = openPosition
                            THEN trades'[i].exitPrice # Null
                            ELSE trades'[i] = trades[i]
              /\ Len(pending') >= Len(pending)
              /\ SubSeq(pending', 1, Len(pending)) = pending)]_vars

\* Two handlers are suspended, the first of a BUY and the second of a SELL,
\* and the trade the first opened has been closed by the second
C23_Witness ==
    /\ Len(pending) = 2
    /\ pending[1].signal = "BUY"
    /\ pending[2].signal = "SELL"
    /\ Len(trades) = 1
    /\ trades[1].exitPrice # Null
    /\ openPosition = 0

\* A BUY was handled while another handler was suspended, and the clock
\* advanced between the read for the id and the read for entryTimestamp
C23_ClockAdvancedReached ==
    /\ result.op = "handleMessage"
    /\ result.signal = "BUY"
    /\ Len(pending) = 2
    /\ trades # <<>>
    /\ trades[Len(trades)].id[1] < trades[Len(trades)].entryTimestamp

\* C24: a BUY signal whose execution price resolves appends, under strategy
\* A, one trade of amount tradeSize at slippageThresholdA and, under strategy
\* B, two trades of amount tradeSize / 2 at slippageThresholdB, both at the
\* price resolved at that threshold; the earlier entries stay as they were
C24_ChunkedBuy ==
    [][(Handled /\ result'.signal = "BUY") =>
          LET tr == config[1].trading
              sl == IF tr.strategy = "B" THEN tr.slippageThresholdB
                                         ELSE tr.slippageThresholdA
              k == IF tr.strategy = "B" THEN 2 ELSE 1
              price == PriceFor(result'.arg, sl)
          IN  IF ~Truthy(price)
              THEN result'.caught /\ trades' = trades
              ELSE /\ ~result'.caught
                   /\ Len(trades') = Len(trades) + k
                   /\ SubSeq(trades', 1, Len(trades)) = trades
                   /\ \A i \in (Len(trades) + 1)..Len(trades') :
                          /\ trades'[i].amount = Frac(tr.tradeSize[1], tr.tradeSize[2] * k)
                          /\ trades'[i].slippage = sl
                          /\ trades'[i].strategy = tr.strategy
                          /\ trades'[i].entryPrice = price[1]
                          /\ trades'[i].exitPrice = Null]_vars

\* Under strategy B a BUY signal has appended two trades of amount 1/2 with
\* the same entry price and different ids
C24_Witness ==
    /\ result.op = "handleMessage"
    /\ result.signal = "BUY"
    /\ config[1].trading.strategy = "B"
    /\ Len(trades) = 2
    /\ trades[1].amount = <<1, 2>>
    /\ trades[2].amount = <<1, 2>>
    /\ trades[1].slippage = <<1, 200>>
    /\ trades[1].entryPrice = trades[2].entryPrice
    /\ trades[1].id # trades[2].id

\* Under strategy A a BUY signal has appended one trade of amount 1
C24_SingleReached ==
    /\ result.op = "handleMessage"
    /\ result.signal = "BUY"
    /\ config[1].trading.strategy = "A"
    /\ Len(trades) = 1
    /\ trades[1].amount = <<1, 1>>
    /\ trades[1].slippage = <<1, 100>>

-----------------------------------------------------------------------------
(* Invariants of the ledger *)

\* C25: the trades of the ledger have pairwise distinct ids
C25_DistinctIds ==
    \A i, j \in 1..Len(trades) : i # j => trades[i].id # trades[j].id

\* Two trades were opened within the same millisecond: their ids share the
\* clock value and differ in the counter
C25_Witness ==
    /\ Len(trades) >= 2
    /\ trades[1].id[1] = trades[2].id[1]
    /\ trades[1].entryTimestamp = trades[2].entryTimestamp
    /\ trades[1].id[2] # trades[2].id[2]

\* C26: the open position is unset or is the last entry of the ledger, and
\* that entry has no exit price
C26_OpenIsLast ==
    \/ openPosition = 0
    \/ /\ Len(trades) >= 1
       /\ openPosition = Len(trades)
       /\ trades[openPosition].exitPrice = Null
       /\ trades[openPosition].exitTimestamp = Null

\* Three trades were opened one after the other: the third is the open
\* position and the two before it are without exit price
C26_Witness ==
    /\ Len(trades) = 3
    /\ openPosition = 3
    /\ trades[1].exitPrice = Null
    /\ trades[2].exitPrice = Null

\* After a sell, with an earlier trade still without exit price, the open
\* position is unset
C26_ClearedReached ==
    /\ Sold(result)
    /\ Len(trades) = 2
    /\ trades[1].exitPrice = Null
    /\ openPosition = 0

\* The entries of the ledger that get their exit price in this step
ClosedNow ==
    {i \in 1..Len(trades) : trades[i].exitPrice = Null /\ trades'[i].exitPrice # Null}

\* The step is the execution of a SELL signal, by executeStrategy alone or
\* by the handling of a message
SellSignal ==
    /\ result'.op \in {"executeStrategy", "handleMessage"}
    /\ result'.signal = "SELL"

\* C27: under strategy B a SELL signal closes no entry but the open position,
\* so at most one; every other entry stays as it was.  The first chunk of
\* every BUY signal, an entry at an odd place of the ledger, is without exit
\* price in every state, whatever signals follow.
C27_OneClose ==
    /\ [][(SellSignal /\ config[1].trading.strategy = "B") =>
             /\ Len(trades') = Len(trades)
             /\ ClosedNow \subseteq {openPosition}
             /\ Cardinality(ClosedNow) <= 1
             /\ \A i \in 1..Len(trades) : i \notin ClosedNow => trades'[i] = trades[i]
             /\ (~result'.caught => openPosition' = 0)
             /\ (~result'.caught /\ openPosition # 0 => ClosedNow = {openPosition})]_vars
    /\ []((config # Null /\ config[1].trading.strategy = "B") =>
             \A i \in 1..Len(trades) : i % 2 = 1 => trades[i].exitPrice = Null)

\* Under strategy B a BUY, a SELL, a BUY and a SELL signal were executed:
\* the second chunk of either BUY is closed, and the first chunk of either
\* is without exit price after the signals that followed it
C27_Witness ==
    /\ result.op = "executeStrategy"
    /\ result.signal = "SELL"
    /\ ~result.caught
    /\ config # Null
    /\ config[1].trading.strategy = "B"
    /\ steps = 4
    /\ Len(trades) = 4
    /\ trades[1].exitPrice = Null
    /\ trades[2].exitPrice # Null
    /\ trades[3].exitPrice = Null
    /\ trades[4].exitPrice # Null
    /\ trades[1].amount = <<1, 2>>
    /\ trades[2].exitTimestamp[1] < trades[3].entryTimestamp
    /\ openPosition = 0

\* Under strategy B a BUY signal and then a SELL signal were handled by the
\* application: the second chunk is closed and the first is without exit
\* price
C27_HandledReached ==
    /\ result.op = "handleMessage"
    /\ result.signal = "SELL"
    /\ ~result.caught
    /\ config[1].trading.strategy = "B"
    /\ Len(trades) = 2
    /\ trades[1].exitPrice = Null
    /\ trades[2].exitPrice # Null
    /\ trades[1].amount = <<1, 2>>
    /\ openPosition = 0

\* After a BUY and a SELL signal under strategy B a further SELL signal has
\* closed nothing: the first chunk is still without exit price
C27_LaterSellReached ==
    /\ result.op = "executeStrategy"
    /\ result.signal = "SELL"
    /\ ~result.caught
    /\ config # Null
    /\ config[1].trading.strategy = "B"
    /\ steps = 3
    /\ Len(trades) = 2
    /\ trades[1].exitPrice = Null
    /\ trades[2].exitPrice # Null
    /\ openPosition = 0

\* The record handled in this step is not filtered, its slope resolves and
\* no resolved slope of its pool has arrived before
FirstObservation ==
    /\ Handled
    /\ result'.arg # Null
    /\ Observed(result'.arg) # Null
    /\ arrivals[Observed(result'.arg).poolAddress] = <<>>

\* C28: handling the first resolved observation of a pool gives no signal and
\* leaves the ledger, the open position and the trade counter as they were
C28_FirstObservationIdle ==
    [][FirstObservation =>
          /\ result'.signal = "null"
          /\ ~result'.caught
          /\ trades' = trades
          /\ openPosition' = openPosition
          /\ tradeCounter' = tradeCounter
          /\ Len(HistoryOf(slopeHistory', Observed(result'.arg).poolAddress)) = 1]_vars

\* Pool Y's first observation, of a slope above the threshold, was handled
\* while pool X's trade is open: the trade is still open
C28_Witness ==
    /\ result.op = "handleMessage"
    /\ result.arg # Null
    /\ Observed(result.arg) # Null
    /\ Observed(result.arg).poolAddress = "0xpoolY"
    /\ FracLt(config[1].trading.slopeThreshold, Observed(result.arg).slope)
    /\ Len(arrivals["0xpoolY"]) = 1
    /\ Len(arrivals["0xpoolX"]) = 2
    /\ result.signal = "null"
    /\ openPosition # 0
    /\ trades[openPosition].poolAddress = "0xpoolX"

\* Pool X's first observation has a slope below the threshold and is handled
\* without a trade
C28_BelowReached ==
    /\ result.op = "handleMessage"
    /\ result.arg # Null
    /\ Observed(result.arg) # Null
    /\ FracLt(Observed(result.arg).slope, config[1].trading.slopeThreshold)
    /\ steps = 1
    /\ result.signal = "null"
    /\ trades = <<>>

-----------------------------------------------------------------------------
(* Frame of the slope histories *)

\* The step is a call of processPoolData
Processed == result'.op = "processPoolData"

\* The record processed in this step is not filtered and its slope is
\* unresolved
Unresolved ==
    /\ Processed
    /\ PoolOf(result'.arg) # Null
    /\ Observed(result'.arg) = Null

Last(s) == s[Len(s)]

\* C29: a record whose slope is unresolved leaves the slope history of every
\* pool as it was, and a resolved observation of a pool that has an earlier
\* resolved one gets, in the result and in its history record, the deltaSlope
\* against the last resolved slope of the pool
C29_UnresolvedLeavesHistory ==
    [][/\ Unresolved =>
             /\ slopeHistory' = slopeHistory
             /\ ~result'.out.threw
             /\ result'.out.slope = Null
       /\ (Processed /\ Observed(result'.arg) # Null) =>
             LET o == Observed(result'.arg)
                 before == arrivals[o.poolAddress]
             IN  before # <<>> =>
                    /\ Last(slopeHistory'[o.poolAddress]).deltaSlope =
                           FracSub(o.slope, Last(before))
                    /\ ~result'.out.threw =>
                           result'.out.deltaSlope = FracSub(o.slope, Last(before))]_vars

\* With a configuration, three records of pool X were processed, the one in
\* the middle without a resolved slope: the call for the third has returned
\* the deltaSlope against the first, and the history has the two records
C29_Witness ==
    /\ config # Null
    /\ steps = 3
    /\ Returned
    /\ result.arg.poolAddress = Some("0xpoolX")
    /\ gaps["0xpoolX"] = <<0, 1, 0>>
    /\ Len(arrivals["0xpoolX"]) = 2
    /\ Len(slopeHistory["0xpoolX"]) = 2
    /\ result.out.slope = arrivals["0xpoolX"][2]
    /\ result.out.deltaSlope =
           FracSub(arrivals["0xpoolX"][2], arrivals["0xpoolX"][1])
    /\ result.out.deltaSlope # FracZero
    /\ slopeHistory["0xpoolX"][2].deltaSlope = result.out.deltaSlope

\* A record of pool X with unresolved slope was processed after a resolved
\* one: the history of pool X still ends with the resolved one
C29_UnresolvedReached ==
    /\ result.op = "processPoolData"
    /\ Returned
    /\ result.out.slope = Null
    /\ result.out.poolData.poolAddress = "0xpoolX"
    /\ steps = 2
    /\ gaps["0xpoolX"] = <<0, 1>>
    /\ Len(arrivals["0xpoolX"]) = 1
    /\ Len(HistoryOf(slopeHistory, "0xpoolX")) = 1
    /\ Last(slopeHistory["0xpoolX"]).slope = Last(arrivals["0xpoolX"])

\* Without a configuration the call for the third record throws when it
\* reads the threshold, after the history has its record
C29_ThrownReached ==
    /\ config = Null
    /\ steps = 3
    /\ result.op = "processPoolData"
    /\ result.out.threw
    /\ gaps["0xpoolX"] = <<0, 1, 0>>
    /\ Len(slopeHistory["0xpoolX"]) = 2
    /\ slopeHistory["0xpoolX"][2].deltaSlope =
           FracSub(arrivals["0xpoolX"][2], arrivals["0xpoolX"][1])
    /\ slopeHistory["0xpoolX"][2].deltaSlope # FracZero

\* C30: a call of processPoolData leaves the history of every pool but the
\* record's own as it was (no key of another pool is added or removed), and
\* the deltaSlope of a resolved observation is null when no resolved slope of
\* its own pool arrived before and otherwise its slope minus the last
\* resolved slope of its own pool, whatever was processed for other pools
C30_PerPool ==
    [][Processed =>
          /\ LET own == PoolOf(result'.arg)
             IN  \A q \in DOMAIN slopeHistory \cup DOMAIN slopeHistory' :
                     own # Some(q) =>
                        /\ q \in DOMAIN slopeHistory
                        /\ q \in DOMAIN slopeHistory'
                        /\ slopeHistory'[q] = slopeHistory[q]
          /\ Observed(result'.arg) # Null =>
                 LET o == Observed(result'.arg)
                     before == arrivals[o.poolAddress]
                     delta == IF before = <<>>
                              THEN Null
                              ELSE FracSub(o.slope, Last(before))
                 IN  /\ Last(slopeHistory'[o.poolAddress]).slope = o.slope
                     /\ Last(slopeHistory'[o.poolAddress]).deltaSlope =
                            (IF delta = Null THEN FracZero ELSE delta)
                     /\ ~result'.out.threw => result'.out.deltaSlope = delta]_vars

\* Records of pool X, pool Y and pool X were processed in this order, the
\* slope of Y's differing from that of X's first: the second record of X has
\* the deltaSlope against the first of X, and Y's history is its one record
C30_Witness ==
    /\ steps = 3
    /\ result.op = "processPoolData"
    /\ result.arg.poolAddress = Some("0xpoolX")
    /\ Len(arrivals["0xpoolX"]) = 2
    /\ Len(arrivals["0xpoolY"]) = 1
    /\ arrivals["0xpoolY"][1] # arrivals["0xpoolX"][1]
    /\ Len(slopeHistory["0xpoolX"]) = 2
    /\ Len(slopeHistory["0xpoolY"]) = 1
    /\ slopeHistory["0xpoolX"][1].timestamp < slopeHistory["0xpoolY"][1].timestamp
    /\ slopeHistory["0xpoolY"][1].deltaSlope = FracZero
    /\ slopeHistory["0xpoolX"][2].deltaSlope =
           FracSub(arrivals["0xpoolX"][2], arrivals["0xpoolX"][1])
    /\ slopeHistory["0xpoolX"][2].deltaSlope #
           FracSub(arrivals["0xpoolX"][2], arrivals["0xpoolY"][1])

\* With the configuration set, pool Y's second observation returns the
\* deltaSlope against Y's first
C30_ReturnedReached ==
    /\ config # Null
    /\ Returned
    /\ result.out.slope # Null
    /\ result.out.poolData.poolAddress = "0xpoolY"
    /\ Len(arrivals["0xpoolY"]) = 2
    /\ arrivals["0xpoolX"] = <<>>
    /\ result.out.deltaSlope = FracSub(arrivals["0xpoolY"][2], arrivals["0xpoolY"][1])
    /\ result.out.deltaSlope # FracZero

-----------------------------------------------------------------------------
(* The reference price of the slope and the execution price *)

\* The snapshot extractPoolData makes of record m
SnapshotOf(m) == extractPoolData(m, 1)[1]

\* C31: for a record whose slope resolves, the execution price at 100 basis
\* points is resolved and is the price calculateSlope used as its reference
\* at 100 basis points, and a BUY signal under strategy A appends a trade
C31_ReferencePriceExecutes ==
    [][(Handled /\ result'.arg # Null /\ Observed(result'.arg) # Null) =>
          /\ getExecutionPrice(SnapshotOf(result'.arg), <<1, 1>>, <<1, 100>>, "BUY") # Null
          /\ getExecutionPrice(SnapshotOf(result'.arg), <<1, 1>>, <<1, 100>>, "BUY") =
                 ReferencePrice(SnapshotOf(result'.arg).prices, 100)
          /\ (result'.signal = "BUY" /\ config[1].trading.strategy = "A") =>
                 Len(trades') = Len(trades) + 1]_vars

\* A BUY signal under strategy A was handled for a record whose bucket at
\* 100 basis points has the price 0: the slope was taken with the price at
\* 90 basis points, no execution price is resolved and no trade is appended
C31_FailureReached ==
    /\ result.op = "handleMessage"
    /\ result.signal = "BUY"
    /\ result.caught
    /\ config[1].trading.strategy = "A"
    /\ result.arg.atoBPrices = TableGap
    /\ ReferencePrice(SnapshotOf(result.arg).prices, 100) = Some(199)
    /\ getExecutionPrice(SnapshotOf(result.arg), <<1, 1>>, <<1, 100>>, "BUY") = Null
    /\ trades = <<>>

-----------------------------------------------------------------------------
(* A trade opened and closed on one snapshot *)

\* C32: an executeSell that follows a successful executeBuy at once, on the
\* same snapshot and with the same slippage, closes the trade just opened
\* with exitPrice = entryPrice, and calculatePnL of the trade returned and of
\* the ledger entry is 0
C32_SameSnapshotNoPnL ==
    [][(/\ Bought(result)
        /\ result'.op = "executeSell"
        /\ result'.poolData = result.poolData
        /\ result'.slippage = result.slippage) =>
          /\ Sold(result')
          /\ result'.value.id = result.value.id
          /\ result'.value.exitPrice = Some(result.value.entryPrice)
          /\ calculatePnL(result'.value) = FracZero
          /\ Len(trades') = Len(trades)
          /\ trades'[Len(trades')].id = result.value.id
          /\ trades'[Len(trades')].exitPrice = Some(trades'[Len(trades')].entryPrice)
          /\ calculatePnL(trades'[Len(trades')]) = FracZero
          /\ openPosition' = 0]_vars

\* Bought and sold at once on pool X's snapshot at 50 basis points, resolved
\* at the nearest bucket, the one at 10: entry and exit price are both 100
C32_Witness ==
    /\ Sold(result)
    /\ steps = 2
    /\ Len(trades) = 1
    /\ result.poolData = Snapshot("0xpoolX", TableBelow)
    /\ result.slippage = <<1, 200>>
    /\ trades[1].slippage = <<1, 200>>
    /\ trades[1].poolAddress = "0xpoolX"
    /\ trades[1].entryPrice = 100
    /\ trades[1].exitPrice = Some(100)
    /\ calculatePnL(trades[1]) = FracZero

\* The same on the snapshot that has a prices map only
C32_PricesOnlyReached ==
    /\ Sold(result)
    /\ steps = 2
    /\ Len(trades) = 1
    /\ result.poolData = PricesOnly
    /\ trades[1].entryPrice = 98
    /\ trades[1].exitPrice = Some(98)

-----------------------------------------------------------------------------
(* The counts of the summary *)

\* The summary of the ledger as it stands
Summary == getPerformanceSummary(Ledger)

\* C33: in every state closedTrades + openPosition <= totalTrades, with
\* equality exactly when no entry without exit price is left that is not the
\* open position; short of resetTrades neither totalTrades nor closedTrades
\* decreases, and closedTrades grows by one in a step that is a successful
\* executeSell and by nothing in any other
C33_SummaryBalance ==
    /\ [](LET s == Summary
          IN  /\ s.closedTrades + s.openPosition <= s.totalTrades
              /\ (s.closedTrades + s.openPosition = s.totalTrades)
                    <=> (Orphans(trades, openPosition) = {}))
    /\ [][result'.op # "resetTrades" =>
             LET s == Summary
                 after == getPerformanceSummary(LedgerNext)
             IN  /\ after.totalTrades >= s.totalTrades
                 /\ after.closedTrades >= s.closedTrades
                 /\ after.closedTrades =
                        s.closedTrades + (IF Sold(result') THEN 1 ELSE 0)]_vars

\* Two trades were opened and the second was sold: one closed, none open,
\* two in all, the first being orphaned
C33_Witness ==
    /\ Sold(result)
    /\ steps = 3
    /\ Summary.totalTrades = 2
    /\ Summary.closedTrades = 1
    /\ Summary.openPosition = 0
    /\ Orphans(trades, openPosition) = {1}

\* A trade was closed and another opened: one closed and one open make the
\* two in all
C33_EqualityReached ==
    /\ Bought(result)
    /\ steps = 3
    /\ Summary.totalTrades = 2
    /\ Summary.closedTrades = 1
    /\ Summary.openPosition = 1
    /\ Orphans(trades, openPosition) = {}

=============================================================================
